---- MODULE Spec2Model ----
(***************************************************************************)
(* Rating and standings engine, recalculation and tournament lifecycle of  *)
(* the tournament tracker (src/app.py).                                    *)
(*                                                                         *)
(* The persisted state is the content of the Player, Tournament,           *)
(* TournamentPlayer, Match and Store tables; the Flask session of every    *)
(* user holds the confirm and edit tokens that user was given.  Every      *)
(* request handler is one action, except apply_top_cut, which is split     *)
(* where its read of the tournament row is separated from the rest of the  *)
(* handler, so that two requests can interleave.                           *)
(***************************************************************************)
EXTENDS Integers, Sequences, FiniteSets, TLC

(* ------------------------------ bounds --------------------------------- *)
NumPlayers == 3
MaxTournaments == 3
MaxTokens == 2
MaxRequests == 2
MaxCut == 3
MaxRound == 2
LifeTournaments == 1
RatingTournaments == 2
MaxRoster == 2049
MaxEntered == 2
MaxStored == 2

(* --------------------------- program constants ------------------------- *)
DEFAULT_ELO == 1000
PROVISIONAL_TOURNAMENTS == 3
K_PREMIUM == 48
K_CASUAL == 16
K_NORMAL == 32
DEFAULT_COMPETITIVE_TOKENS == 5
DEFAULT_PREMIUM_TOKENS == 1

\* NULL of a nullable column, None of Python
None == 0

Players == 1..NumPlayers
Tids == 1..MaxTournaments
Tokens == 1..MaxTokens
Requests == 1..MaxRequests
STORE == 1

\* users.is_admin / users.is_scorekeeper: one user of each kind and one
\* logged-in user without a role
Users == {"admin", "keeper", "member"}
is_admin(u) == u = "admin"
is_scorekeeper(u) == u = "keeper"
\* store_assignments: the scorekeeper is assigned to the store
can_use_store(u) == is_admin(u) \/ u = "keeper"
stores_for_user(u) == IF u = "keeper" THEN {STORE} ELSE {}

(* --------------------------- rating engine ----------------------------- *)
\* EloStepsK[i] is the least rating difference d = opponent - own at which
\* Python's round(K * (1 - 1 / (1 + 10 ** (d / ELO_DIVISOR)))) reaches i, with
\* ELO_DIVISOR = DEFAULT_ELO / 2.5 = 400.0; tabulated from the float
\* expression of update_elo for every integer d (the value is 0 below the
\* first step and K from the last one on).
EloSteps16 ==
    <<
       -596, -394, -292, -221, -162, -112, -65, -21, 22, 66, 113, 163, 222, 293, 395,
       597
    >>

EloSteps32 ==
    <<
       -719, -523, -428, -364, -314, -273, -237, -205, -176, -149, -124, -100, -77, -54,
       -32, -10, 11, 33, 55, 78, 101, 125, 150, 177, 206, 238, 274, 315, 365, 429, 524,
       720
    >>

EloSteps48 ==
    <<
       -791, -596, -504, -441, -394, -355, -322, -292, -266, -243, -221, -200, -181,
       -162, -145, -128, -112, -96, -81, -65, -51, -36, -21, -7, 8, 22, 37, 52, 66, 82,
       97, 113, 129, 146, 163, 182, 201, 222, 244, 267, 293, 323, 356, 395, 442, 505,
       597, 792
    >>

EloSteps96 ==
    <<
       -912, -719, -629, -568, -523, -486, -455, -428, -405, -383, -364, -346, -329,
       -314, -299, -286, -273, -260, -248, -237, -226, -215, -205, -195, -186, -176,
       -167, -158, -149, -141, -132, -124, -116, -108, -100, -92, -84, -77, -69, -62,
       -54, -47, -39, -32, -25, -18, -10, -3, 4, 11, 19, 26, 33, 40, 48, 55, 63, 70, 78,
       85, 93, 101, 109, 117, 125, 133, 142, 150, 159, 168, 177, 187, 196, 206, 216,
       227, 238, 249, 261, 274, 287, 300, 315, 330, 347, 365, 384, 406, 429, 456, 487,
       524, 569, 630, 720, 913
    >>

EloSteps144 ==
    <<
       -983, -791, -701, -641, -596, -560, -530, -504, -481, -460, -441, -424, -408,
       -394, -380, -367, -355, -343, -332, -322, -311, -302, -292, -283, -275, -266,
       -258, -250, -243, -235, -228, -221, -214, -207, -200, -194, -187, -181, -175,
       -169, -162, -157, -151, -145, -139, -134, -128, -123, -117, -112, -107, -101,
       -96, -91, -86, -81, -75, -70, -65, -60, -55, -51, -46, -41, -36, -31, -26, -21,
       -16, -12, -7, -2, 3, 8, 13, 17, 22, 27, 32, 37, 42, 47, 52, 56, 61, 66, 71, 76,
       82, 87, 92, 97, 102, 108, 113, 118, 124, 129, 135, 140, 146, 152, 158, 163, 170,
       176, 182, 188, 195, 201, 208, 215, 222, 229, 236, 244, 251, 259, 267, 276, 284,
       293, 303, 312, 323, 333, 344, 356, 368, 381, 395, 409, 425, 442, 461, 482, 505,
       531, 561, 597, 642, 702, 792, 984
    >>

EloSteps(k) ==
    CASE k = 16 -> EloSteps16
      [] k = 32 -> EloSteps32
      [] k = 48 -> EloSteps48
      [] k = 96 -> EloSteps96
      [] k = 144 -> EloSteps144

\* round(k * (1 - expected)) of a winner whose opponent is rated d above
WinDelta(k, d) == Cardinality({i \in 1..k : EloSteps(k)[i] <= d})

\* round(k * (result - expected)); result2 is twice the result value
\* (2 win, 1 draw, 0 loss).  k * (1 - result) is an integer for every k
\* in use, so the rounding commutes with the subtraction.
EloDelta(k, result2, d) == WinDelta(k, d) - (k * (2 - result2)) \div 2

result_to_scores(result) ==
    CASE result = "2-0" -> <<2, 0>>
      [] result = "0-2" -> <<0, 2>>
      [] result = "1-1" -> <<1, 1>>
      [] result = "bye" -> <<2, 0>>
      [] result = "2-1" -> <<2, 1>>
      [] result = "1-2" -> <<1, 2>>
      [] result = "1-0" -> <<1, 0>>
      [] result = "0-1" -> <<0, 1>>
      [] OTHER -> <<>>

\* result_to_scores(m.result) or (1, 1)
ScoresOrDraw(result) ==
    IF result_to_scores(result) = <<>> THEN <<1, 1>> ELSE result_to_scores(result)

\* default_top_cut whose first tier starts at 8 players
default_top_cut_from_eight(num_players) ==
    LET cut == IF 8 <= num_players /\ num_players <= 16 THEN 4
               ELSE IF 17 <= num_players /\ num_players <= 216 THEN 8
               ELSE IF 217 <= num_players /\ num_players <= 512 THEN 16
               ELSE IF 513 <= num_players /\ num_players <= 2048 THEN 32
               ELSE 0
    IN IF cut < num_players THEN cut ELSE num_players

default_top_cut(num_players) ==
    LET cut == IF 9 <= num_players /\ num_players <= 16 THEN 4
               ELSE IF 17 <= num_players /\ num_players <= 216 THEN 8
               ELSE IF 217 <= num_players /\ num_players <= 512 THEN 16
               ELSE IF 513 <= num_players /\ num_players <= 2048 THEN 32
               ELSE 0
    IN IF cut < num_players THEN cut ELSE num_players

(* ------------------------------- state --------------------------------- *)
VARIABLES
    elo,        \* Player.elo of every player
    tourn,      \* the Tournament row of every id
    matches,    \* the Match rows of every tournament, in id order
    tps,        \* the TournamentPlayer rows: the player ids of every tournament
    store,      \* the Store row
    decks,      \* the Deck rows: the ids of the players with a deck, per tournament
    players,    \* the Player rows: the ids in use
    session,    \* the Flask session of every user
    req,        \* the apply_top_cut requests
    last        \* the response of the last request handled

vars == <<elo, tourn, matches, tps, store, decks, players, session, req, last>>
db == <<elo, tourn, matches, tps, store, decks, players>>

\* NULL of Tournament.top_cut, absent top_cut form field
NoCut == -1

\* an id without a Tournament row
NoTournament ==
    [exists |-> FALSE, pending |-> FALSE, confirm_token |-> None, edit_token |-> None,
     imported_from_text |-> FALSE, casual |-> FALSE, premium |-> FALSE,
     store_id |-> None, user_id |-> "", top_cut |-> NoCut]

\* a request that holds no Tournament object
IdleRequest ==
    [pc |-> "idle", user |-> "", tid |-> None, cut |-> NoCut, tournament |-> NoTournament]

Match(round_num, player1_id, player2_id, result) ==
    [round_num |-> round_num, player1_id |-> player1_id,
     player2_id |-> player2_id, result |-> result]

\* Tournament.submitted_at is datetime.utcnow() at creation and the id is one
\* more than the largest id in use, so the rows ordered by submitted_at are
\* the rows ordered by id.
submitted_at(t) == t

\* the request handled last and its response: the handler, the caller, the
\* tournament id of the URL, the branch the handler returned from (status)
\* and what a rendered page shows of the standings (body, <<>> when none)
Reply(op, u, tid, status, body) ==
    last' = [op |-> op, user |-> u, tid |-> tid, status |-> status, body |-> body]
Respond(op, u, tid, status) == Reply(op, u, tid, status, <<>>)

\* a request that ends without db.session.commit(): the teardown discards
\* the session, whatever the handler assigned to its objects
Rollback == UNCHANGED <<elo, tourn, matches, tps, store, decks, players>>

(* ------------------------------ helpers -------------------------------- *)
\* secrets.token_urlsafe(16) returns a value that no row, no session and no
\* request in flight holds.  A value that nothing holds any more can be drawn
\* again: a request that presents it presents a token that is not the
\* current one, as with every other stale token.
TokensHeld ==
    {tourn[t].confirm_token : t \in Tids} \cup {tourn[t].edit_token : t \in Tids}
        \cup {session[u].tok[t] : u \in Users, t \in Tids}
        \cup {session[u].edit[t] : u \in Users, t \in Tids}
        \cup {req[r].tournament.confirm_token : r \in Requests}
FreshTokens == Tokens \ TokensHeld
token_urlsafe == CHOOSE k \in FreshTokens : \A j \in FreshTokens : k <= j

tournaments_played(player_id) ==
    Cardinality({t \in Tids : tourn[t].exists /\ player_id \in tps[t] /\ ~tourn[t].pending})

\* update_elo_played that scores a drawn match as a win of player_a
update_elo_played_draw_to_a(e, player_a, player_b, score_a, score_b, tournament, played_a, played_b) ==
    IF player_a = None \/ player_b = None THEN e
    ELSE IF player_a \notin players \/ player_b \notin players THEN e
    ELSE
    LET result_a == IF score_a >= score_b THEN 2 ELSE 0
        result_b == 2 - result_a
        k == IF tournament.premium THEN K_PREMIUM
             ELSE IF tournament.casual THEN K_CASUAL ELSE K_NORMAL
        k_a == IF played_a < PROVISIONAL_TOURNAMENTS THEN k * 3 ELSE k
        k_b == IF played_b < PROVISIONAL_TOURNAMENTS THEN k * 3 ELSE k
        delta_a == EloDelta(k_a, result_a, e[player_b] - e[player_a])
        delta_b == EloDelta(k_b, result_b, e[player_a] - e[player_b])
    IN IF player_a = player_b
       THEN [e EXCEPT ![player_a] = @ + delta_a + delta_b]
       ELSE [e EXCEPT ![player_a] = @ + delta_a, ![player_b] = @ + delta_b]

\* update_elo_played that takes the expected score of player_a for player_b
update_elo_played_same_expected(e, player_a, player_b, score_a, score_b, tournament, played_a, played_b) ==
    IF player_a = None \/ player_b = None THEN e
    ELSE IF player_a \notin players \/ player_b \notin players THEN e
    ELSE
    LET result_a == IF score_a > score_b THEN 2 ELSE IF score_a < score_b THEN 0 ELSE 1
        result_b == 2 - result_a
        k == IF tournament.premium THEN K_PREMIUM
             ELSE IF tournament.casual THEN K_CASUAL ELSE K_NORMAL
        k_a == IF played_a < PROVISIONAL_TOURNAMENTS THEN k * 3 ELSE k
        k_b == IF played_b < PROVISIONAL_TOURNAMENTS THEN k * 3 ELSE k
        delta_a == EloDelta(k_a, result_a, e[player_b] - e[player_a])
        delta_b == EloDelta(k_b, result_b, e[player_b] - e[player_a])
    IN IF player_a = player_b
       THEN [e EXCEPT ![player_a] = @ + delta_a + delta_b]
       ELSE [e EXCEPT ![player_a] = @ + delta_a, ![player_b] = @ + delta_b]

\* update_elo_played with the provisional multiplier on either side always
update_elo_played_always_provisional(e, player_a, player_b, score_a, score_b, tournament, played_a, played_b) ==
    IF player_a = None \/ player_b = None THEN e
    ELSE IF player_a \notin players \/ player_b \notin players THEN e
    ELSE
    LET result_a == IF score_a > score_b THEN 2 ELSE IF score_a < score_b THEN 0 ELSE 1
        result_b == 2 - result_a
        k == IF tournament.premium THEN K_PREMIUM
             ELSE IF tournament.casual THEN K_CASUAL ELSE K_NORMAL
        k_a == k * 3
        k_b == k * 3
        delta_a == EloDelta(k_a, result_a, e[player_b] - e[player_a])
        delta_b == EloDelta(k_b, result_b, e[player_a] - e[player_b])
    IN IF player_a = player_b
       THEN [e EXCEPT ![player_a] = @ + delta_a + delta_b]
       ELSE [e EXCEPT ![player_a] = @ + delta_a, ![player_b] = @ + delta_b]

\* update_elo on the ratings e, played_a and played_b being what
\* tournaments_played returns for the two players; tournament is the
\* Tournament object passed
update_elo_played(e, player_a, player_b, score_a, score_b, tournament, played_a, played_b) ==
    IF player_a = None \/ player_b = None THEN e
    \* Player.query.get and Match.player1 are None for an id without a row
    ELSE IF player_a \notin players \/ player_b \notin players THEN e
    ELSE
    LET result_a == IF score_a > score_b THEN 2 ELSE IF score_a < score_b THEN 0 ELSE 1
        result_b == 2 - result_a
        k == IF tournament.premium THEN K_PREMIUM
             ELSE IF tournament.casual THEN K_CASUAL ELSE K_NORMAL
        k_a == IF played_a < PROVISIONAL_TOURNAMENTS THEN k * 3 ELSE k
        k_b == IF played_b < PROVISIONAL_TOURNAMENTS THEN k * 3 ELSE k
        delta_a == EloDelta(k_a, result_a, e[player_b] - e[player_a])
        delta_b == EloDelta(k_b, result_b, e[player_a] - e[player_b])
    IN IF player_a = player_b
       THEN [e EXCEPT ![player_a] = @ + delta_a + delta_b]
       ELSE [e EXCEPT ![player_a] = @ + delta_a, ![player_b] = @ + delta_b]

\* update_elo with the Tournament and TournamentPlayer rows as they are
update_elo(e, player_a, player_b, score_a, score_b, tournament) ==
    update_elo_played(e, player_a, player_b, score_a, score_b, tournament,
                      tournaments_played(player_a), tournaments_played(player_b))

\* the rows of a query .order_by(Match.round_num): by round, rows of one
\* round in id order
RECURSIVE OrderByRound(_, _)
OrderByRound(ms, r) ==
    IF r > MaxRound THEN <<>>
    ELSE SelectSeq(ms, LAMBDA m : m.round_num = r) \o OrderByRound(ms, r + 1)

\* the loop "Finalize Elo" of apply_top_cut over the matches ms
RECURSIVE FinalizeElo(_, _, _)
FinalizeElo(e, ms, tournament) ==
    IF ms = <<>> THEN e
    ELSE LET m == Head(ms)
             scores == ScoresOrDraw(m.result)
         IN IF (m.result = "bye" /\ m.player1_id # None /\ m.player2_id = None)
               \/ m.player1_id = None \/ m.player2_id = None
            THEN FinalizeElo(e, Tail(ms), tournament)
            ELSE FinalizeElo(update_elo(e, m.player1_id, m.player2_id,
                                        scores[1], scores[2], tournament),
                             Tail(ms), tournament)

PlayersOf(text) ==
    {text[i].player : i \in 1..Len(text)}
        \cup ({text[i].opponent : i \in 1..Len(text)} \ {None})

\* the largest id in use plus one
NewTid ==
    IF \A t \in Tids : ~tourn[t].exists THEN 1
    ELSE 1 + CHOOSE t \in Tids : tourn[t].exists /\ \A s \in Tids : tourn[s].exists => s <= t

(* ---------------------------- import texts ----------------------------- *)
Parsed(round, player, opponent, result) ==
    [round |-> round, player |-> player, opponent |-> opponent, result |-> result]

(* ------------------------------- Init ---------------------------------- *)
Init ==
    /\ elo = [p \in Players |-> DEFAULT_ELO]
    /\ tourn = [t \in Tids |-> NoTournament]
    /\ matches = [t \in Tids |-> <<>>]
    /\ tps = [t \in Tids |-> {}]
    /\ decks = [t \in Tids |-> {}]
    /\ players = Players
    /\ store = [premium |-> TRUE,
                competitive_tokens |-> DEFAULT_COMPETITIVE_TOKENS,
                premium_tokens |-> DEFAULT_PREMIUM_TOKENS]
    /\ session = [u \in Users |-> [tok |-> [t \in Tids |-> None],
                                   edit |-> [t \in Tids |-> None]]]
    /\ req = [r \in Requests |-> IdleRequest]
    /\ last = [op |-> "", user |-> "", tid |-> None, status |-> "", body |-> <<>>]

(* --------------------------- new_tournament ---------------------------- *)
\* POST /tournament/new, workflow "import": qtype is the type of the query
\* string, ftype the tournament_type of the form
new_tournament(u, qtype, ftype, text) ==
    /\ UNCHANGED <<elo, store, decks, session, req, players>>
    /\ IF ~(is_admin(u) \/ is_scorekeeper(u))
       THEN Respond("new_tournament", u, None, "forbidden")
            /\ UNCHANGED <<tourn, matches, tps>>
       ELSE IF \/ qtype = "premium"
                  /\ ~\E s \in stores_for_user(u) : store.premium /\ store.premium_tokens > 0
               \/ qtype = "competitive"
                  /\ ~\E s \in stores_for_user(u) : store.competitive_tokens > 0
       THEN Respond("new_tournament", u, None, "no_tokens")
            /\ UNCHANGED <<tourn, matches, tps>>
       ELSE IF text = <<>>
       THEN Respond("new_tournament", u, None, "no_matches")
            /\ UNCHANGED <<tourn, matches, tps>>
       ELSE /\ FreshTokens # {}
            /\ NewTid \in Tids
            /\ tourn' = [tourn EXCEPT ![NewTid] =
                    [exists |-> TRUE, pending |-> TRUE, confirm_token |-> token_urlsafe,
                     edit_token |-> None, imported_from_text |-> TRUE,
                     casual |-> (ftype = "casual"), premium |-> (ftype = "premium"),
                     store_id |-> None, user_id |-> u, top_cut |-> NoCut]]
            /\ tps' = [tps EXCEPT ![NewTid] = PlayersOf(text)]
            /\ matches' = [matches EXCEPT ![NewTid] =
                    [i \in 1..Len(text) |->
                        IF text[i].opponent = None
                        THEN Match(text[i].round, text[i].player, None, "bye")
                        ELSE Match(text[i].round, text[i].player, text[i].opponent,
                                   text[i].result)]]
            /\ Respond("new_tournament", u, NewTid, "created")

\* discard_tournament without the deletion of the Deck rows
discard_tournament_keeping_decks(u, tid) ==
    /\ UNCHANGED <<elo, store, decks, session, req, players>>
    /\ IF ~tourn[tid].exists
       THEN Respond("discard_tournament", u, tid, "not_found")
            /\ UNCHANGED <<tourn, matches, tps>>
       ELSE IF ~(is_admin(u) \/ is_scorekeeper(u))
       THEN Respond("discard_tournament", u, tid, "forbidden")
            /\ UNCHANGED <<tourn, matches, tps>>
       ELSE IF tourn[tid].imported_from_text /\ tourn[tid].pending
       THEN /\ tps' = [tps EXCEPT ![tid] = {}]
            /\ matches' = [matches EXCEPT ![tid] = <<>>]
            /\ tourn' = [tourn EXCEPT ![tid] = NoTournament]
            /\ Respond("discard_tournament", u, tid, "deleted")
       ELSE Respond("discard_tournament", u, tid, "ignored")
            /\ UNCHANGED <<tourn, matches, tps>>

(* --------------------------- discard_tournament ------------------------ *)
discard_tournament(u, tid) ==
    /\ UNCHANGED <<elo, store, session, req, players>>
    /\ IF ~tourn[tid].exists
       THEN Respond("discard_tournament", u, tid, "not_found")
            /\ UNCHANGED <<tourn, matches, tps, decks>>
       ELSE IF ~(is_admin(u) \/ is_scorekeeper(u))
       THEN Respond("discard_tournament", u, tid, "forbidden")
            /\ UNCHANGED <<tourn, matches, tps, decks>>
       ELSE IF tourn[tid].imported_from_text /\ tourn[tid].pending
       THEN /\ tps' = [tps EXCEPT ![tid] = {}]
            /\ matches' = [matches EXCEPT ![tid] = <<>>]
            /\ decks' = [decks EXCEPT ![tid] = {}]
            /\ tourn' = [tourn EXCEPT ![tid] = NoTournament]
            /\ Respond("discard_tournament", u, tid, "deleted")
       ELSE Respond("discard_tournament", u, tid, "ignored")
            /\ UNCHANGED <<tourn, matches, tps, decks>>

(* ----------------------------- apply_top_cut --------------------------- *)
\* apply_top_cut_check without the check of the pending flag
apply_top_cut_check_ignoring_pending(u, tid) ==
    IF ~tourn[tid].exists THEN "not_found"
    ELSE IF ~(is_admin(u) \/ is_scorekeeper(u)) THEN "forbidden"
    ELSE ""

\* lines 4869-4882: what the handler answers before it touches anything, ""
\* when it goes on
apply_top_cut_check(u, tid) ==
    IF ~tourn[tid].exists THEN "not_found"
    ELSE IF ~(is_admin(u) \/ is_scorekeeper(u)) THEN "forbidden"
    ELSE IF ~tourn[tid].pending THEN "already_finalized"
    ELSE ""

\* top_cut_choice that takes every supplied value as it is
top_cut_choice_as_supplied(cut, num_players) ==
    IF cut = NoCut THEN default_top_cut(num_players) ELSE cut

\* lines 4893-4906: the top cut for the form field top_cut (NoCut when the
\* field is absent, empty or not a number) and the number of players
top_cut_choice(cut, num_players) ==
    IF cut = NoCut THEN default_top_cut(num_players)
    ELSE IF cut > num_players THEN default_top_cut(num_players)
    ELSE cut

\* the messages flashed with the answer: "Top Cut .. is larger than ..
\* players. Using Auto instead."
top_cut_flash(cut, num_players) ==
    IF cut # NoCut /\ cut > num_players THEN <<"top_cut_too_large">> ELSE <<>>

\* apply_top_cut_commit that marks the tournament final and leaves the
\* confirm token on the row
apply_top_cut_commit_keeping_confirm_token(u, tid, tournament, cut) ==
    LET num_players == Cardinality(tps[tid])
        top_cut == top_cut_choice(cut, num_players)
        consume == tournament.store_id # None /\ tournament.pending
    IN IF ~tourn[tid].exists
       THEN /\ UNCHANGED <<elo, tourn, store>>
            /\ Respond("apply_top_cut", u, tid, "error")
       ELSE /\ elo' = FinalizeElo(elo, matches[tid], tournament)
            /\ store' =
                 IF consume /\ tournament.premium /\ store.premium_tokens > 0
                 THEN [store EXCEPT !.premium_tokens = @ - 1]
                 ELSE IF consume /\ ~tournament.premium /\ ~tournament.casual
                         /\ store.competitive_tokens > 0
                 THEN [store EXCEPT !.competitive_tokens = @ - 1]
                 ELSE store
            /\ tourn' = [tourn EXCEPT ![tid].top_cut = top_cut,
                                      ![tid].pending = FALSE]
            /\ Reply("apply_top_cut", u, tid, "finalized", top_cut_flash(cut, num_players))

\* apply_top_cut_commit that takes the token of the tournament's kind
\* without looking at the count
apply_top_cut_commit_any_count(u, tid, tournament, cut) ==
    LET num_players == Cardinality(tps[tid])
        top_cut == top_cut_choice(cut, num_players)
        consume == tournament.store_id # None /\ tournament.pending
    IN IF ~tourn[tid].exists
       THEN /\ UNCHANGED <<elo, tourn, store>>
            /\ Respond("apply_top_cut", u, tid, "error")
       ELSE /\ elo' = FinalizeElo(elo, matches[tid], tournament)
            /\ store' =
                 IF consume /\ tournament.premium
                 THEN [store EXCEPT !.premium_tokens = @ - 1]
                 ELSE IF consume /\ ~tournament.premium /\ ~tournament.casual
                 THEN [store EXCEPT !.competitive_tokens = @ - 1]
                 ELSE store
            /\ tourn' = [tourn EXCEPT ![tid].top_cut = top_cut,
                                      ![tid].pending = FALSE,
                                      ![tid].confirm_token = None]
            /\ Reply("apply_top_cut", u, tid, "finalized", top_cut_flash(cut, num_players))

\* lines 4884-4946 on the Tournament object the handler read (tournament) and
\* the other rows as they are now
apply_top_cut_commit(u, tid, tournament, cut) ==
    LET num_players == Cardinality(tps[tid])
        top_cut == top_cut_choice(cut, num_players)
        consume == tournament.store_id # None /\ tournament.pending
    IN IF ~tourn[tid].exists
       THEN \* the UPDATE of the Tournament row matches no row: rollback
            /\ UNCHANGED <<elo, tourn, store>>
            /\ Respond("apply_top_cut", u, tid, "error")
       ELSE /\ elo' = FinalizeElo(elo, matches[tid], tournament)
            /\ store' =
                 IF consume /\ tournament.premium /\ store.premium_tokens > 0
                 THEN [store EXCEPT !.premium_tokens = @ - 1]
                 ELSE IF consume /\ ~tournament.premium /\ ~tournament.casual
                         /\ store.competitive_tokens > 0
                 THEN [store EXCEPT !.competitive_tokens = @ - 1]
                 ELSE store
            /\ tourn' = [tourn EXCEPT ![tid].top_cut = top_cut,
                                      ![tid].pending = FALSE,
                                      ![tid].confirm_token = None]
            /\ Reply("apply_top_cut", u, tid, "finalized", top_cut_flash(cut, num_players))

\* the handler run without another request in between
apply_top_cut(u, tid, cut) ==
    /\ UNCHANGED <<matches, tps, decks, session, req, players>>
    /\ IF apply_top_cut_check(u, tid) # ""
       THEN /\ UNCHANGED <<elo, tourn, store>>
            /\ Respond("apply_top_cut", u, tid, apply_top_cut_check(u, tid))
       ELSE apply_top_cut_commit(u, tid, tourn[tid], cut)

\* the handler run in which an exception is raised after the checks: in the
\* Elo loop or the token consumption (the request ends without a commit) or
\* in db.session.commit() (the handler calls db.session.rollback()).  Nothing
\* the handler assigned to its objects reaches the database.
apply_top_cut_fault(u, tid, cut) ==
    /\ tourn[tid].exists
    /\ apply_top_cut_check(u, tid) = ""
    /\ Rollback
    /\ UNCHANGED <<session, req>>
    /\ Respond("apply_top_cut", u, tid, "error")

\* the handler run as two steps, other requests in between: the request r
\* reads the Tournament row and checks it ...
apply_top_cut_begin(r, u, tid, cut) ==
    /\ req[r].pc = "idle"
    /\ UNCHANGED <<elo, tourn, matches, tps, store, decks, session, players>>
    /\ IF apply_top_cut_check(u, tid) # ""
       THEN /\ UNCHANGED req
            /\ Respond("apply_top_cut", u, tid, apply_top_cut_check(u, tid))
       ELSE /\ req' = [req EXCEPT ![r] = [pc |-> "loaded", user |-> u, tid |-> tid,
                                          cut |-> cut, tournament |-> tourn[tid]]]
            /\ UNCHANGED last

\* ... and goes on with the object it read
apply_top_cut_finish(r) ==
    /\ req[r].pc = "loaded"
    /\ UNCHANGED <<matches, tps, decks, session, players>>
    /\ req' = [req EXCEPT ![r] = IdleRequest]
    /\ apply_top_cut_commit(req[r].user, req[r].tid, req[r].tournament, req[r].cut)

(* ------------------------- standings calculator ------------------------ *)
\* the roster of a tournament, in the order the query returns its Player rows
RECURSIVE Roster(_, _)
Roster(tid, p) ==
    IF p > NumPlayers THEN <<>>
    ELSE (IF p \in tps[tid] THEN <<p>> ELSE <<>>) \o Roster(tid, p + 1)

\* what one match adds to elo_changes[p]: update_elo on the persisted
\* ratings, the two differences, then p1.elo, p2.elo = old1, old2
PreviewChange(m, p, tournament) ==
    LET scores == ScoresOrDraw(m.result)
        e == update_elo(elo, m.player1_id, m.player2_id, scores[1], scores[2], tournament)
    IN (IF m.player1_id = p THEN e[p] - elo[p] ELSE 0)
       + (IF m.player2_id = p THEN e[p] - elo[p] ELSE 0)

\* tournament_standings previews every match that has a player2_id
StandingsPreviewed(m) == m.player2_id # None

\* tournament_round skips byes and matches with an absent player
RoundPreviewed(m) ==
    /\ ~(m.result = "bye" /\ m.player1_id # None /\ m.player2_id = None)
    /\ m.player1_id # None
    /\ m.player2_id # None

\* the matches the preview loop of a view applies update_elo to
Previewed(view, m) ==
    IF view = "standings" THEN StandingsPreviewed(m) ELSE RoundPreviewed(m)

\* p1.elo of a missing player1 (AttributeError) or elo_changes[p.id] of a
\* player outside the roster (KeyError) ends the request with an error
PreviewFails(tid, view) ==
    \E i \in 1..Len(matches[tid]) :
        /\ Previewed(view, matches[tid][i])
        /\ \/ matches[tid][i].player1_id \notin tps[tid]
           \/ matches[tid][i].player2_id \notin tps[tid]

RECURSIVE EloChanges(_, _, _, _)
EloChanges(ms, p, tournament, view) ==
    IF ms = <<>> THEN 0
    ELSE (IF Previewed(view, Head(ms)) THEN PreviewChange(Head(ms), p, tournament) ELSE 0)
         + EloChanges(Tail(ms), p, tournament, view)

\* wins, draws, losses and points of player p over the matches ms
RECURSIVE Tally(_, _)
Tally(ms, p) ==
    IF ms = <<>> THEN [wins |-> 0, draws |-> 0, losses |-> 0, points |-> 0]
    ELSE LET m == Head(ms)
             rest == Tally(Tail(ms), p)
         IN IF ~(m.player1_id = p \/ m.player2_id = p) THEN rest
            ELSE IF m.result = "bye" /\ m.player1_id = p
            THEN [rest EXCEPT !.wins = @ + 1, !.points = @ + 3]
            ELSE IF m.result \in {"2-0", "2-1", "1-0"} /\ m.player1_id = p
            THEN [rest EXCEPT !.wins = @ + 1, !.points = @ + 3]
            ELSE IF m.result \in {"0-2", "1-2", "0-1"} /\ m.player2_id = p
            THEN [rest EXCEPT !.wins = @ + 1, !.points = @ + 3]
            ELSE IF m.result = "1-1"
            THEN [rest EXCEPT !.draws = @ + 1, !.points = @ + 1]
            ELSE [rest EXCEPT !.losses = @ + 1]

\* one row of the standings; tournament_standings shows the casual points of
\* CasualPointsHistory for a casual tournament (no such row in this model)
StandingsRow(tid, p, view, casual_points) ==
    LET tally == Tally(matches[tid], p)
    IN [player |-> p, wins |-> tally.wins, draws |-> tally.draws,
        losses |-> tally.losses,
        points |-> IF casual_points THEN 0 ELSE tally.points,
        elo_delta |-> EloChanges(matches[tid], p, tourn[tid], view)]

\* standings.sort(key=lambda s: (s["points"], s["wins"]), reverse=True):
\* stable, rows with equal keys keep their order
RowBefore(a, b) == a.points > b.points \/ (a.points = b.points /\ a.wins > b.wins)

RECURSIVE InsertRow(_, _)
InsertRow(sorted, row) ==
    IF sorted = <<>> THEN <<row>>
    ELSE IF RowBefore(row, Head(sorted)) THEN <<row>> \o sorted
    ELSE <<Head(sorted)>> \o InsertRow(Tail(sorted), row)

RECURSIVE SortRows(_)
SortRows(rows) ==
    IF rows = <<>> THEN <<>>
    ELSE InsertRow(SortRows(SubSeq(rows, 1, Len(rows) - 1)), rows[Len(rows)])

Standings(tid, view, casual_points) ==
    SortRows([i \in 1..Len(Roster(tid, 1)) |->
                 StandingsRow(tid, Roster(tid, 1)[i], view, casual_points)])

\* calculate_per_round_elo_changes: per match, by round then id
PerRoundEloChanges(tid) ==
    LET ms == OrderByRound(matches[tid], 1)
        known(m) == m.player1_id # None /\ m.player2_id # None
        bye(m) == m.result = "bye" /\ m.player1_id # None /\ m.player2_id = None
        listed == SelectSeq(ms, LAMBDA m : bye(m) \/ known(m))
    IN [i \in 1..Len(listed) |->
           LET m == listed[i]
               scores == ScoresOrDraw(m.result)
               e == update_elo(elo, m.player1_id, m.player2_id,
                               scores[1], scores[2], tourn[tid])
           IN IF bye(m)
              THEN [round_num |-> m.round_num, player1_elo_delta |-> 0,
                    player2_elo_delta |-> 0, winner |-> 1]
              ELSE [round_num |-> m.round_num,
                    player1_elo_delta |-> e[m.player1_id] - elo[m.player1_id],
                    player2_elo_delta |-> e[m.player2_id] - elo[m.player2_id],
                    winner |-> IF scores[1] > scores[2] THEN 1
                               ELSE IF scores[2] > scores[1] THEN 2 ELSE 0]]

\* the page of tournament_standings
StandingsPage(tid) ==
    [tid |-> tid, standings |-> Standings(tid, "standings", tourn[tid].casual),
     per_round |-> <<>>]

\* the page of the imported-tournament preview of tournament_round
RoundPage(tid) ==
    [tid |-> tid, standings |-> Standings(tid, "round", FALSE),
     per_round |-> PerRoundEloChanges(tid)]

\* tournament_standings that keeps the ratings of its update_elo calls and
\* commits them
tournament_standings_committing(tid) ==
    /\ tourn[tid].exists
    /\ UNCHANGED <<tourn, matches, tps, store, decks, session, req, players>>
    /\ IF PreviewFails(tid, "standings")
       THEN Respond("tournament_standings", "anyone", tid, "error") /\ UNCHANGED elo
       ELSE /\ elo' = FinalizeElo(elo, matches[tid], tourn[tid])
            /\ Reply("tournament_standings", "anyone", tid, "page", StandingsPage(tid))

(* -------------------------- tournament_standings ----------------------- *)
tournament_standings(tid) ==
    /\ tourn[tid].exists
    /\ Rollback
    /\ UNCHANGED <<session, req>>
    /\ IF PreviewFails(tid, "standings")
       THEN Respond("tournament_standings", "anyone", tid, "error")
       ELSE Reply("tournament_standings", "anyone", tid, "page", StandingsPage(tid))

(* ------------------------------ access --------------------------------- *)
\* current_user.is_admin or tournament.user_id == current_user.id
can_edit(u, tid) == is_admin(u) \/ tourn[tid].user_id = u

is_new_import(tid) == tourn[tid].pending /\ tourn[tid].confirm_token # None
is_editing(tid) == ~tourn[tid].pending /\ tourn[tid].edit_token # None
is_manual_tournament(tid) == ~tourn[tid].imported_from_text

\* session.get(key) is set and equals the token of the row
SessionHolds(held, token) == held # None /\ held = token

(* ---------------------------- tournament_round ------------------------- *)
\* GET /tournament/<tid>/round/<n>?token=..&edit_token=..
tournament_round(u, tid, token, edit_token) ==
    /\ tourn[tid].exists
    /\ Rollback
    /\ UNCHANGED req
    /\ LET bind_tok == is_new_import(tid) /\ token # None
                       /\ token = tourn[tid].confirm_token
           reject_tok == is_new_import(tid) /\ ~bind_tok
                         /\ ~SessionHolds(session[u].tok[tid], tourn[tid].confirm_token)
           held == SessionHolds(session[u].edit[tid], tourn[tid].edit_token)
           bind_edit == is_editing(tid) /\ ~held /\ edit_token # None
                        /\ edit_token = tourn[tid].edit_token
           reject_edit == is_editing(tid) /\ ~held /\ ~bind_edit
       IN /\ session' =
                IF bind_tok THEN [session EXCEPT ![u].tok[tid] = token]
                ELSE IF bind_edit THEN [session EXCEPT ![u].edit[tid] = edit_token]
                ELSE session
          /\ IF reject_tok THEN Respond("tournament_round", u, tid, "invalid_confirm_link")
             ELSE IF reject_edit THEN Respond("tournament_round", u, tid, "invalid_edit_link")
             ELSE IF is_editing(tid) /\ tourn[tid].casual
             THEN Respond("tournament_round", u, tid, "to_edit_casual")
             ELSE IF is_manual_tournament(tid) /\ tourn[tid].casual
             THEN Respond("tournament_round", u, tid, "casual_no_rounds")
             ELSE IF is_manual_tournament(tid) /\ ~can_edit(u, tid)
             THEN Respond("tournament_round", u, tid, "forbidden")
             ELSE IF tourn[tid].imported_from_text /\ ~is_new_import(tid) /\ ~is_editing(tid)
             THEN Respond("tournament_round", u, tid, "finalized")
             ELSE IF ~tourn[tid].imported_from_text
             THEN Respond("tournament_round", u, tid, "round_form")
             ELSE IF PreviewFails(tid, "round")
             THEN Respond("tournament_round", u, tid, "error")
             ELSE Reply("tournament_round", u, tid, "page", RoundPage(tid))

(* ----------------------- tournament_round, POST ------------------------ *)
\* the option "bye" of the selects player1_<i> and player2_<i>
ByeOption == -1

\* one pairing of the form: player1_<i>, player2_<i> (a player id, ByeOption,
\* or None when empty) and result_<i>
Pairing(p1_val, p2_val, result) == [p1_val |-> p1_val, p2_val |-> p2_val, result |-> result]

\* the loop over the pairings of the form, lines 4754-4793: st.status is the
\* error the loop returned with ("" when none), st.added the Match rows
\* added to the session, st.e the ratings of the Player objects
RECURSIVE SubmitPairings(_, _, _, _, _)
SubmitPairings(st, form, round_num, tournament, editing) ==
    IF form = <<>> \/ st.status # "" THEN st
    ELSE LET f == Head(form)
             score_map == result_to_scores(f.result)
             next ==
                IF f.p1_val = None \/ f.p2_val = None THEN st
                ELSE IF f.p1_val = f.p2_val /\ f.p1_val # ByeOption
                THEN [st EXCEPT !.status = "self_pairing"]
                ELSE IF f.p1_val = ByeOption \/ f.p2_val = ByeOption
                THEN [st EXCEPT !.added = Append(@,
                         Match(round_num,
                               IF f.p1_val = ByeOption THEN None ELSE f.p1_val,
                               IF f.p2_val = ByeOption THEN None ELSE f.p2_val,
                               "bye"))]
                ELSE IF score_map = <<>>
                THEN [st EXCEPT !.status = "invalid_result"]
                ELSE [st EXCEPT
                         !.added = Append(@, Match(round_num, f.p1_val, f.p2_val, f.result)),
                         !.e = IF editing THEN @
                               ELSE update_elo(@, f.p1_val, f.p2_val,
                                               score_map[1], score_map[2], tournament)]
         IN SubmitPairings(next, Tail(form), round_num, tournament, editing)

\* POST /tournament/<tid>/round/<round_num> without a link in the query
\* string; form is the sequence of the pairings
tournament_round_post(u, tid, round_num, form) ==
    /\ tourn[tid].exists
    /\ UNCHANGED <<tourn, tps, store, decks, players, session, req>>
    /\ LET reject_tok == is_new_import(tid)
                         /\ ~SessionHolds(session[u].tok[tid], tourn[tid].confirm_token)
           reject_edit == is_editing(tid)
                          /\ ~SessionHolds(session[u].edit[tid], tourn[tid].edit_token)
           num_read == (Cardinality(tps[tid]) + 1) \div 2
           read == SubSeq(form, 1, IF Len(form) < num_read THEN Len(form) ELSE num_read)
           \* the rows of the round are deleted and the deletion committed first
           kept == IF is_editing(tid)
                   THEN SelectSeq(matches[tid], LAMBDA m : m.round_num # round_num)
                   ELSE matches[tid]
           st == SubmitPairings([status |-> "", added |-> <<>>, e |-> elo], read,
                                round_num, tourn[tid], is_editing(tid))
           Refuse(status) == Respond("tournament_round", u, tid, status)
                             /\ UNCHANGED <<elo, matches>>
       IN IF reject_tok THEN Refuse("invalid_confirm_link")
          ELSE IF reject_edit THEN Refuse("invalid_edit_link")
          ELSE IF is_editing(tid) /\ tourn[tid].casual THEN Refuse("to_edit_casual")
          ELSE IF is_manual_tournament(tid) /\ tourn[tid].casual THEN Refuse("casual_no_rounds")
          ELSE IF is_manual_tournament(tid) /\ ~can_edit(u, tid) THEN Refuse("forbidden")
          ELSE IF tourn[tid].imported_from_text /\ ~is_new_import(tid) /\ ~is_editing(tid)
          THEN Refuse("finalized")
          ELSE IF tourn[tid].imported_from_text
          THEN /\ UNCHANGED <<elo, matches>>
               /\ IF PreviewFails(tid, "round")
                  THEN Respond("tournament_round", u, tid, "error")
                  ELSE Reply("tournament_round", u, tid, "page", RoundPage(tid))
          ELSE IF st.status # ""
          THEN /\ matches' = [matches EXCEPT ![tid] = kept]
               /\ UNCHANGED elo
               /\ Respond("tournament_round", u, tid, st.status)
          ELSE /\ matches' = [matches EXCEPT ![tid] = kept \o st.added]
               /\ elo' = st.e
               /\ Respond("tournament_round", u, tid,
                          IF is_editing(tid) THEN "round_updated" ELSE "round_submitted")

\* edit_tournament without the check of the pending flag
edit_tournament_while_pending(u, tid) ==
    /\ tourn[tid].exists
    /\ UNCHANGED <<elo, matches, tps, store, decks, req, players>>
    /\ IF ~can_edit(u, tid)
       THEN Respond("edit_tournament", u, tid, "forbidden")
            /\ UNCHANGED <<tourn, session>>
       ELSE /\ FreshTokens # {}
            /\ tourn' = [tourn EXCEPT
                    ![tid].edit_token = token_urlsafe,
                    ![tid].casual = IF tourn[tid].imported_from_text THEN @ ELSE TRUE]
            /\ session' = [session EXCEPT ![u].edit[tid] = token_urlsafe]
            /\ Respond("edit_tournament", u, tid,
                       IF tourn[tid].imported_from_text THEN "edit_rounds" ELSE "edit_casual")

(* ---------------------------- edit_tournament -------------------------- *)
edit_tournament(u, tid) ==
    /\ tourn[tid].exists
    /\ UNCHANGED <<elo, matches, tps, store, decks, req, players>>
    /\ IF ~can_edit(u, tid)
       THEN Respond("edit_tournament", u, tid, "forbidden")
            /\ UNCHANGED <<tourn, session>>
       ELSE IF tourn[tid].pending
       THEN Respond("edit_tournament", u, tid, "pending")
            /\ UNCHANGED <<tourn, session>>
       ELSE /\ FreshTokens # {}
            /\ tourn' = [tourn EXCEPT
                    ![tid].edit_token = token_urlsafe,
                    ![tid].casual = IF tourn[tid].imported_from_text THEN @ ELSE TRUE]
            /\ session' = [session EXCEPT ![u].edit[tid] = token_urlsafe]
            /\ Respond("edit_tournament", u, tid,
                       IF tourn[tid].imported_from_text THEN "edit_rounds" ELSE "edit_casual")

\* update_match_results without the comparison of the session token
update_match_results_any_session(u, tid, mt, i, winner_num) ==
    /\ tourn[tid].exists
    /\ UNCHANGED <<elo, tourn, tps, store, decks, session, req, players>>
    /\ IF ~can_edit(u, tid)
       THEN Respond("update_match_results", u, tid, "forbidden") /\ UNCHANGED matches
       ELSE IF tourn[tid].edit_token = None
       THEN Respond("update_match_results", u, tid, "not_edit_mode") /\ UNCHANGED matches
       ELSE /\ Respond("update_match_results", u, tid, "success")
            /\ matches' =
                 IF i \in 1..Len(matches[mt]) /\ mt = tid
                 THEN [matches EXCEPT ![mt][i].result =
                          IF winner_num = 1 THEN "2-0"
                          ELSE IF winner_num = 2 THEN "0-2" ELSE "1-1"]
                 ELSE matches

\* update_match_results without the comparison of match.tournament_id
update_match_results_any_tournament(u, tid, mt, i, winner_num) ==
    /\ tourn[tid].exists
    /\ UNCHANGED <<elo, tourn, tps, store, decks, session, req, players>>
    /\ IF ~can_edit(u, tid)
       THEN Respond("update_match_results", u, tid, "forbidden") /\ UNCHANGED matches
       ELSE IF tourn[tid].edit_token = None
       THEN Respond("update_match_results", u, tid, "not_edit_mode") /\ UNCHANGED matches
       ELSE IF ~SessionHolds(session[u].edit[tid], tourn[tid].edit_token)
       THEN Respond("update_match_results", u, tid, "invalid_session") /\ UNCHANGED matches
       ELSE /\ Respond("update_match_results", u, tid, "success")
            /\ matches' =
                 IF i \in 1..Len(matches[mt])
                 THEN [matches EXCEPT ![mt][i].result =
                          IF winner_num = 1 THEN "2-0"
                          ELSE IF winner_num = 2 THEN "0-2" ELSE "1-1"]
                 ELSE matches

\* update_match_results that rates the corrected match at once, as the
\* round form does for a tournament that is not being edited
update_match_results_rating(u, tid, mt, i, winner_num) ==
    /\ tourn[tid].exists
    /\ UNCHANGED <<tourn, tps, store, decks, session, req, players>>
    /\ IF ~can_edit(u, tid)
       THEN Respond("update_match_results", u, tid, "forbidden") /\ UNCHANGED <<elo, matches>>
       ELSE IF tourn[tid].edit_token = None
       THEN Respond("update_match_results", u, tid, "not_edit_mode")
            /\ UNCHANGED <<elo, matches>>
       ELSE IF ~SessionHolds(session[u].edit[tid], tourn[tid].edit_token)
       THEN Respond("update_match_results", u, tid, "invalid_session")
            /\ UNCHANGED <<elo, matches>>
       ELSE /\ Respond("update_match_results", u, tid, "success")
            /\ IF i \in 1..Len(matches[mt]) /\ mt = tid
               THEN LET result == IF winner_num = 1 THEN "2-0"
                                  ELSE IF winner_num = 2 THEN "0-2" ELSE "1-1"
                        scores == ScoresOrDraw(result)
                    IN /\ matches' = [matches EXCEPT ![mt][i].result = result]
                       /\ elo' = update_elo(elo, matches[mt][i].player1_id,
                                            matches[mt][i].player2_id,
                                            scores[1], scores[2], tourn[tid])
               ELSE UNCHANGED <<elo, matches>>

(* -------------------------- update_match_results ----------------------- *)
\* the JSON body {"changes": {match_id: winner_num}} with one entry: the
\* Match row is the i-th row of tournament mt
update_match_results(u, tid, mt, i, winner_num) ==
    /\ tourn[tid].exists
    /\ UNCHANGED <<elo, tourn, tps, store, decks, session, req, players>>
    /\ IF ~can_edit(u, tid)
       THEN Respond("update_match_results", u, tid, "forbidden") /\ UNCHANGED matches
       ELSE IF tourn[tid].edit_token = None
       THEN Respond("update_match_results", u, tid, "not_edit_mode") /\ UNCHANGED matches
       ELSE IF ~SessionHolds(session[u].edit[tid], tourn[tid].edit_token)
       THEN Respond("update_match_results", u, tid, "invalid_session") /\ UNCHANGED matches
       ELSE /\ Respond("update_match_results", u, tid, "success")
            /\ matches' =
                 IF i \in 1..Len(matches[mt]) /\ mt = tid
                 THEN [matches EXCEPT ![mt][i].result =
                          IF winner_num = 1 THEN "2-0"
                          ELSE IF winner_num = 2 THEN "0-2" ELSE "1-1"]
                 ELSE matches

(* ----------------------- update_tournament_metadata -------------------- *)
\* name and date of the tournament are not part of the state: the status
\* tells whether the handler wrote them
update_tournament_metadata(u, tid) ==
    /\ tourn[tid].exists
    /\ Rollback
    /\ UNCHANGED <<session, req>>
    /\ IF ~(is_new_import(tid) \/ is_editing(tid) \/ is_manual_tournament(tid))
       THEN Respond("update_tournament_metadata", u, tid, "no_access_mode")
       ELSE IF is_new_import(tid)
               /\ ~SessionHolds(session[u].tok[tid], tourn[tid].confirm_token)
       THEN Respond("update_tournament_metadata", u, tid, "invalid_confirm_link")
       ELSE IF is_editing(tid)
               /\ ~SessionHolds(session[u].edit[tid], tourn[tid].edit_token)
       THEN Respond("update_tournament_metadata", u, tid, "invalid_edit_link")
       ELSE IF is_manual_tournament(tid) /\ ~can_edit(u, tid)
       THEN Respond("update_tournament_metadata", u, tid, "forbidden")
       ELSE Respond("update_tournament_metadata", u, tid, "updated")

(* --------------------------- set_tournament_store ---------------------- *)
set_tournament_store(u, tid, store_id) ==
    /\ tourn[tid].exists
    /\ UNCHANGED <<elo, matches, tps, store, decks, session, req, players>>
    /\ IF ~(is_admin(u) \/ is_scorekeeper(u))
       THEN Respond("set_tournament_store", u, tid, "forbidden") /\ UNCHANGED tourn
       ELSE IF is_new_import(tid)
               /\ ~SessionHolds(session[u].tok[tid], tourn[tid].confirm_token)
       THEN Respond("set_tournament_store", u, tid, "invalid_confirm_link") /\ UNCHANGED tourn
       ELSE IF is_editing(tid)
               /\ ~SessionHolds(session[u].edit[tid], tourn[tid].edit_token)
       THEN Respond("set_tournament_store", u, tid, "invalid_edit_link") /\ UNCHANGED tourn
       ELSE IF is_manual_tournament(tid) /\ ~can_edit(u, tid)
       THEN Respond("set_tournament_store", u, tid, "forbidden") /\ UNCHANGED tourn
       ELSE IF tourn[tid].imported_from_text /\ ~is_new_import(tid) /\ ~is_editing(tid)
       THEN Respond("set_tournament_store", u, tid, "finalized") /\ UNCHANGED tourn
       ELSE IF store_id = None
       THEN Respond("set_tournament_store", u, tid, "no_store") /\ UNCHANGED tourn
       ELSE IF ~can_use_store(u)
       THEN Respond("set_tournament_store", u, tid, "not_assigned") /\ UNCHANGED tourn
       ELSE /\ tourn' = [tourn EXCEPT ![tid].store_id = store_id]
            /\ Respond("set_tournament_store", u, tid, "store_set")

(* -------------------- recalculate_elo_from_timestamp ------------------- *)
\* the replay loop over the matches ms of tournament row t
RECURSIVE ReplayMatches(_, _, _)
ReplayMatches(e, ms, t) ==
    IF ms = <<>> THEN e
    ELSE LET m == Head(ms)
             scores == ScoresOrDraw(m.result)
         IN IF m.result = "bye" \/ m.player1_id = None \/ m.player2_id = None
            THEN ReplayMatches(e, Tail(ms), t)
            ELSE ReplayMatches(update_elo(e, m.player1_id, m.player2_id,
                                          scores[1], scores[2], t),
                               Tail(ms), t)

\* the loop over the tournaments of ts from id tid on, ascending submitted_at
RECURSIVE ReplayTournaments(_, _, _)
ReplayTournaments(e, ts, tid) ==
    IF tid > MaxTournaments THEN e
    ELSE IF tid \in ts
    THEN ReplayTournaments(ReplayMatches(e, OrderByRound(matches[tid], 1), tourn[tid]),
                           ts, tid + 1)
    ELSE ReplayTournaments(e, ts, tid + 1)

recalculate_elo_from_timestamp(e, from_timestamp) ==
    LET tournaments == {t \in Tids : tourn[t].exists /\ ~tourn[t].pending
                                     /\ submitted_at(t) >= from_timestamp}
        affected_player_ids == UNION {tps[t] : t \in tournaments}
        earlier_tournaments == {t \in Tids : tourn[t].exists /\ ~tourn[t].pending
                                             /\ submitted_at(t) < from_timestamp}
        reset == [p \in Players |-> IF p \in affected_player_ids THEN DEFAULT_ELO ELSE e[p]]
    IN ReplayTournaments(ReplayTournaments(reset, earlier_tournaments, 1), tournaments, 1)

\* finalize_tournament_edit that leaves the edit token on the row
finalize_tournament_edit_keeping_token(u, tid) ==
    /\ tourn[tid].exists
    /\ UNCHANGED <<tourn, matches, tps, store, decks, session, req, players>>
    /\ IF ~can_edit(u, tid)
       THEN Respond("finalize_tournament_edit", u, tid, "forbidden") /\ UNCHANGED elo
       ELSE /\ elo' = recalculate_elo_from_timestamp(elo, submitted_at(tid))
            /\ Respond("finalize_tournament_edit", u, tid, "saved")

(* ------------------------ finalize_tournament_edit --------------------- *)
finalize_tournament_edit(u, tid) ==
    /\ tourn[tid].exists
    /\ UNCHANGED <<matches, tps, store, decks, session, req, players>>
    /\ IF ~can_edit(u, tid)
       THEN Respond("finalize_tournament_edit", u, tid, "forbidden") /\ UNCHANGED <<elo, tourn>>
       ELSE /\ tourn' = [tourn EXCEPT ![tid].edit_token = None]
            /\ elo' = recalculate_elo_from_timestamp(elo, submitted_at(tid))
            /\ Respond("finalize_tournament_edit", u, tid, "saved")

\* finalize_tournament_edit_fault that commits the cleared edit token and the
\* reset ratings it had when the exception was raised
finalize_tournament_edit_fault_committing(u, tid) ==
    /\ tourn[tid].exists
    /\ can_edit(u, tid)
    /\ tourn' = [tourn EXCEPT ![tid].edit_token = None]
    /\ elo' = [p \in Players |->
                 IF \E t \in Tids : /\ tourn[t].exists /\ ~tourn[t].pending
                                     /\ submitted_at(t) >= submitted_at(tid)
                                     /\ p \in tps[t]
                 THEN DEFAULT_ELO ELSE elo[p]]
    /\ UNCHANGED <<matches, tps, store, decks, session, req, players>>
    /\ Respond("finalize_tournament_edit", u, tid, "error")

\* the handler run in which an exception is raised in
\* recalculate_elo_from_timestamp or in the commit: the request ends without
\* a commit, the cleared edit token and the ratings assigned so far are lost
finalize_tournament_edit_fault(u, tid) ==
    /\ tourn[tid].exists
    /\ can_edit(u, tid)
    /\ Rollback
    /\ UNCHANGED <<session, req>>
    /\ Respond("finalize_tournament_edit", u, tid, "error")

(* ------------------------- edit_casual_tournament ---------------------- *)
\* GET or POST /tournament/<tid>/edit_casual?edit_token=..; the form of a
\* POST names the top-cut players (player_<rank>), those of them with a deck
\* (deck_name_<rank>) and the store
edit_casual_tournament(u, tid, edit_token, method, form) ==
    /\ tourn[tid].exists
    /\ UNCHANGED <<elo, matches, store, req, players>>
    /\ LET bind == edit_token # None /\ edit_token = tourn[tid].edit_token
           held == SessionHolds(session[u].edit[tid], tourn[tid].edit_token)
       IN IF ~tourn[tid].casual
          THEN Respond("edit_casual_tournament", u, tid, "not_casual")
               /\ UNCHANGED <<tourn, tps, decks, session>>
          ELSE IF ~can_edit(u, tid)
          THEN Respond("edit_casual_tournament", u, tid, "forbidden")
               /\ UNCHANGED <<tourn, tps, decks, session>>
          ELSE IF ~bind /\ ~held
          THEN Respond("edit_casual_tournament", u, tid, "invalid_edit_link")
               /\ UNCHANGED <<tourn, tps, decks, session>>
          ELSE IF method = "GET"
          THEN /\ session' = IF bind THEN [session EXCEPT ![u].edit[tid] = edit_token]
                             ELSE session
               /\ Respond("edit_casual_tournament", u, tid, "form")
               /\ UNCHANGED <<tourn, tps, decks>>
          ELSE /\ tourn' = [tourn EXCEPT ![tid].top_cut = form.top_cut,
                                         ![tid].store_id = form.store_id,
                                         ![tid].edit_token = None]
               /\ tps' = [tps EXCEPT ![tid] = form.players]
               /\ decks' = [decks EXCEPT ![tid] = form.decks]
               /\ session' = [session EXCEPT ![u].edit[tid] = None]
               /\ Respond("edit_casual_tournament", u, tid, "updated")

(* ---------------------------- delete_tournament ------------------------ *)
\* tournaments_played once the rows of tournament gone are deleted
tournaments_played_without(player_id, gone) ==
    Cardinality({t \in Tids \ {gone} :
                    tourn[t].exists /\ player_id \in tps[t] /\ ~tourn[t].pending})

\* the replay loop of delete_tournament over the matches ms of tournament
\* row t
RECURSIVE DeleteReplayMatches(_, _, _, _)
DeleteReplayMatches(e, ms, t, gone) ==
    IF ms = <<>> THEN e
    ELSE LET m == Head(ms)
             scores == result_to_scores(m.result)
         IN IF m.player1_id # None /\ m.player2_id # None /\ scores # <<>>
            THEN DeleteReplayMatches(
                     update_elo_played(e, m.player1_id, m.player2_id,
                                       scores[1], scores[2], t,
                                       tournaments_played_without(m.player1_id, gone),
                                       tournaments_played_without(m.player2_id, gone)),
                     Tail(ms), t, gone)
            ELSE DeleteReplayMatches(e, Tail(ms), t, gone)

\* the loop over the remaining finalized tournaments from id tid on,
\* ascending submitted_at
RECURSIVE DeleteReplay(_, _, _)
DeleteReplay(e, tid, gone) ==
    IF tid > MaxTournaments THEN e
    ELSE IF tid # gone /\ tourn[tid].exists /\ ~tourn[tid].pending
    THEN DeleteReplay(DeleteReplayMatches(e, OrderByRound(matches[tid], 1), tourn[tid], gone),
                      tid + 1, gone)
    ELSE DeleteReplay(e, tid + 1, gone)

\* POST /tournament/<tid>/delete
delete_tournament(u, tid) ==
    /\ UNCHANGED <<store, session, req, players>>
    /\ IF ~tourn[tid].exists
       THEN Respond("delete_tournament", u, tid, "not_found")
            /\ UNCHANGED <<elo, tourn, matches, tps, decks>>
       ELSE IF ~can_edit(u, tid)
       THEN Respond("delete_tournament", u, tid, "forbidden")
            /\ UNCHANGED <<elo, tourn, matches, tps, decks>>
       ELSE /\ matches' = [matches EXCEPT ![tid] = <<>>]
            /\ decks' = [decks EXCEPT ![tid] = {}]
            /\ tps' = [tps EXCEPT ![tid] = {}]
            /\ tourn' = [tourn EXCEPT ![tid] = NoTournament]
            /\ elo' = DeleteReplay([p \in Players |-> DEFAULT_ELO], 1, tid)
            /\ Respond("delete_tournament", u, tid, "deleted")

(* ------------------------------ submit_deck ---------------------------- *)
\* POST /submit_deck with player_id and tournament_id in the form
submit_deck(u, tid, player_id) ==
    /\ UNCHANGED <<elo, tourn, matches, tps, store, session, req, players>>
    /\ IF ~tourn[tid].exists
       THEN Respond("submit_deck", u, tid, "not_found") /\ UNCHANGED decks
       ELSE IF /\ tourn[tid].imported_from_text /\ ~tourn[tid].pending
               /\ ~SessionHolds(session[u].edit[tid], tourn[tid].edit_token)
       THEN Respond("submit_deck", u, tid, "finalized") /\ UNCHANGED decks
       ELSE /\ decks' = [decks EXCEPT ![tid] = @ \cup {player_id}]
            /\ Respond("submit_deck", u, tid, "saved")

(* ------------------------------ delete_player ------------------------- *)
\* the rows that db.session.delete(player) sets player_id of to NULL through
\* the backrefs of Player: TournamentPlayer and Deck rows, whose player_id is
\* NOT NULL (the flush fails with an IntegrityError).  Match has no backref
\* on Player and SQLite does not enforce its foreign keys.
HasOwnedRows(pid, roster, deck_rows) ==
    \E t \in Tids : pid \in roster[t] \/ pid \in deck_rows[t]

\* POST /delete_player/<pid>
delete_player(u, pid) ==
    /\ UNCHANGED <<elo, tourn, matches, tps, store, decks, session, req>>
    /\ IF pid \notin players
       THEN Respond("delete_player", u, None, "not_found") /\ UNCHANGED players
       ELSE IF HasOwnedRows(pid, tps, decks)
       THEN Respond("delete_player", u, None, "error") /\ UNCHANGED players
       ELSE /\ players' = players \ {pid}
            /\ Respond("delete_player", u, None, "deleted")

(* ------------------------------ merge_player --------------------------- *)
\* recalc_elo(player_id) reaches update_elo(.., k=k), a keyword update_elo
\* does not take (TypeError), at the first match of the player that has a
\* player2_id and a result result_to_scores knows
RecalcEloFails(player_id) ==
    \E t \in Tids : \E i \in 1..Len(matches[t]) :
        /\ matches[t][i].player1_id = player_id \/ matches[t][i].player2_id = player_id
        /\ matches[t][i].player2_id # None
        /\ result_to_scores(matches[t][i].result) # <<>>

\* POST /merge_player with source_id and target_id in the form.  The
\* TournamentPlayer rows of the source go to the target (a tournament of both
\* then has two rows of the target, which the set keeps as one); recalc_elo
\* commits them with the reset rating of the target; then the source is
\* deleted and the deletion committed.
merge_player(u, source_id, target_id) ==
    /\ UNCHANGED <<tourn, matches, store, decks, session, req>>
    /\ LET moved == [t \in Tids |->
                        IF source_id \in tps[t]
                        THEN (tps[t] \ {source_id}) \cup {target_id} ELSE tps[t]]
       IN IF source_id \notin players \/ target_id \notin players
          THEN Respond("merge_player", u, None, "not_found")
               /\ UNCHANGED <<elo, tps, players>>
          ELSE IF RecalcEloFails(target_id)
          THEN Respond("merge_player", u, None, "error")
               /\ UNCHANGED <<elo, tps, players>>
          ELSE /\ tps' = moved
               /\ elo' = [elo EXCEPT ![target_id] = DEFAULT_ELO]
               /\ IF HasOwnedRows(source_id, moved, decks)
                  THEN Respond("merge_player", u, None, "error") /\ UNCHANGED players
                  ELSE /\ players' = players \ {source_id}
                       /\ Respond("merge_player", u, None, "merged")

(* ---------------------- new_tournament, manual workflow ---------------- *)
new_tournament_manual(u, qtype, ftype, player_names) ==
    /\ UNCHANGED <<elo, matches, store, decks, session, req, players>>
    /\ IF ~(is_admin(u) \/ is_scorekeeper(u))
       THEN Respond("new_tournament", u, None, "forbidden") /\ UNCHANGED <<tourn, tps>>
       ELSE IF \/ qtype = "premium"
                  /\ ~\E s \in stores_for_user(u) : store.premium /\ store.premium_tokens > 0
               \/ qtype = "competitive"
                  /\ ~\E s \in stores_for_user(u) : store.competitive_tokens > 0
       THEN Respond("new_tournament", u, None, "no_tokens") /\ UNCHANGED <<tourn, tps>>
       ELSE /\ NewTid \in Tids
            /\ tourn' = [tourn EXCEPT ![NewTid] =
                    [exists |-> TRUE, pending |-> FALSE, confirm_token |-> None,
                     edit_token |-> None, imported_from_text |-> FALSE,
                     casual |-> (ftype = "casual"), premium |-> (ftype = "premium"),
                     store_id |-> None, user_id |-> u, top_cut |-> NoCut]]
            /\ tps' = [tps EXCEPT ![NewTid] = player_names]
            /\ Respond("new_tournament", u, NewTid, "created_manual")

(* ---------------------------- specification ---------------------------- *)
\* Three specifications over the same handlers.  Spec runs the lifecycle of
\* one tournament at a time with the three users, every request handled
\* before the next one starts.  SpecRating has one scorekeeper run several
\* tournaments with the imports that decide ratings.  SpecRace lets two
\* apply_top_cut requests overlap.

\* the links (?token=.., ?edit_token=..) a user can follow: the scorekeeper
\* was sent links, current ones and others; nobody else was
Links(u) ==
    IF u = "keeper"
    THEN {<<None, None>>} \cup {<<k, None>> : k \in Tokens} \cup {<<None, k>> : k \in Tokens}
    ELSE {<<None, None>>}

\* who submits tournaments
Submitters == {"keeper", "member"}

CutInputs == {NoCut, MaxCut}

\* the imports, the tournament types and the forms of the lifecycle runs
LifeTexts == { <<>>, << Parsed(1, 1, 2, "2-0") >> }
LifeTypes == {"competitive", "casual"}
CasualForms == {[top_cut |-> 8, store_id |-> None, players |-> {1, 2}, decks |-> {}]}

\* fewer than n Tournament rows exist
RoomFor(n) == Cardinality({t \in Tids : tourn[t].exists}) < n

Next ==
    \/ \E u \in Submitters, type \in LifeTypes, text \in LifeTexts :
          RoomFor(LifeTournaments) /\ new_tournament(u, type, type, text)
    \/ \E u \in Submitters, type \in LifeTypes :
          RoomFor(LifeTournaments) /\ new_tournament_manual(u, type, type, {1, 2})
    \/ \E u \in Users, tid \in Tids : \E link \in Links(u) :
          tournament_round(u, tid, link[1], link[2])
    \/ \E tid \in Tids : tournament_standings(tid)
    \/ \E u \in Users, tid \in Tids : discard_tournament(u, tid)
    \/ \E u \in Users, tid \in Tids, cut \in CutInputs : apply_top_cut(u, tid, cut)
    \/ \E u \in Users, tid \in Tids, store_id \in {None, STORE} :
          set_tournament_store(u, tid, store_id)
    \/ \E u \in Users, tid \in Tids : edit_tournament(u, tid)
    \/ \E u \in Users, tid \in Tids, i \in 1..2, winner_num \in 0..2 :
          update_match_results(u, tid, tid, i, winner_num)
    \/ \E u \in Users, tid \in Tids : update_tournament_metadata(u, tid)
    \/ \E u \in Users, tid \in Tids : finalize_tournament_edit(u, tid)
    \/ \E u \in Users, tid \in Tids, cut \in CutInputs : apply_top_cut_fault(u, tid, cut)
    \/ \E u \in Users, tid \in Tids : finalize_tournament_edit_fault(u, tid)
    \/ \E u \in Users, tid \in Tids, method \in {"GET", "POST"}, form \in CasualForms :
          \E link \in Links(u) : link[1] = None
              /\ edit_casual_tournament(u, tid, link[2], method, form)

Spec == Init /\ [][Next]_vars

\* the imports of the rating runs: a single match, and two rounds pasted
\* with the later round first
RatingTexts ==
    { << Parsed(1, 1, 2, "2-0") >>,
      << Parsed(2, 2, 3, "1-1"), Parsed(1, 3, 2, "0-2") >> }

\* the winners an edit of the rating runs sets: a draw, player 2
RatingWinners == {0, 2}

\* the scorekeeper opens the round view without a link, edits a tournament
\* once, and saves an edit they started
NextRating ==
    \/ \E text \in RatingTexts :
          RoomFor(RatingTournaments)
              /\ new_tournament("keeper", "competitive", "competitive", text)
    \/ \E tid \in Tids : apply_top_cut("keeper", tid, NoCut)
    \/ \E tid \in Tids : tournament_standings(tid)
    \/ \E tid \in Tids : tournament_round("keeper", tid, None, None)
    \/ \E tid \in Tids : session["keeper"].edit[tid] = None /\ edit_tournament("keeper", tid)
    \/ \E tid \in Tids, mt \in Tids, i \in 1..2, winner_num \in RatingWinners :
          update_match_results("keeper", tid, mt, i, winner_num)
    \/ \E tid \in Tids : is_editing(tid) /\ finalize_tournament_edit("keeper", tid)

SpecRating == Init /\ [][NextRating]_vars

\* the imports of the history runs: a single match, and a text with a line
\* "player  opponent  bye" (a bye result with a named opponent) followed by
\* a bye line
HistoryTexts ==
    { << Parsed(1, 1, 2, "2-0") >>,
      << Parsed(1, 1, 2, "bye"), Parsed(1, 3, None, "bye") >> }

\* the scorekeeper imports, finalizes, edits once, saves and deletes
\* tournaments
NextHistory ==
    \/ \E text \in HistoryTexts :
          new_tournament("keeper", "competitive", "competitive", text)
    \/ \E tid \in Tids : apply_top_cut("keeper", tid, NoCut)
    \/ \E tid \in Tids : tournament_standings(tid)
    \/ \E tid \in Tids : session["keeper"].edit[tid] = None /\ edit_tournament("keeper", tid)
    \/ \E tid \in Tids : is_editing(tid) /\ finalize_tournament_edit("keeper", tid)
    \/ \E tid \in Tids : delete_tournament("keeper", tid)

SpecHistory == Init /\ [][NextHistory]_vars

\* one pending import of the scorekeeper with a bye line for each of n
\* players, n up to MaxRoster; of the Match rows the one of player 1 is kept
\* (apply_top_cut skips every one of them)
InitTopCut ==
    \E n \in 1..MaxRoster :
        /\ elo = [p \in Players |-> DEFAULT_ELO]
        /\ tourn = [t \in Tids |->
                      IF t = 1
                      THEN [exists |-> TRUE, pending |-> TRUE, confirm_token |-> 1,
                            edit_token |-> None, imported_from_text |-> TRUE,
                            casual |-> FALSE, premium |-> FALSE, store_id |-> None,
                            user_id |-> "keeper", top_cut |-> NoCut]
                      ELSE NoTournament]
        /\ matches = [t \in Tids |->
                        IF t = 1 THEN << Match(1, 1, None, "bye") >> ELSE <<>>]
        /\ tps = [t \in Tids |-> IF t = 1 THEN 1..n ELSE {}]
        /\ decks = [t \in Tids |-> {}]
        /\ players = Players \cup 1..n
        /\ store = [premium |-> TRUE,
                    competitive_tokens |-> DEFAULT_COMPETITIVE_TOKENS,
                    premium_tokens |-> DEFAULT_PREMIUM_TOKENS]
        /\ session = [u \in Users |-> [tok |-> [t \in Tids |-> None],
                                       edit |-> [t \in Tids |-> None]]]
        /\ req = [r \in Requests |-> IdleRequest]
        /\ last = [op |-> "new_tournament", user |-> "keeper", tid |-> 1,
                   status |-> "created", body |-> <<>>]

\* the values of the form field top_cut tried for a tournament of n players:
\* none, 0, and the values around n
TopCutInputs(n) == {NoCut, 0, n - 1, n, n + 1}

\* the scorekeeper finalizes the import
NextTopCut ==
    \E cut \in TopCutInputs(Cardinality(tps[1])) : apply_top_cut("keeper", 1, cut)

SpecTopCut == InitTopCut /\ [][NextTopCut]_vars

\* the imports of the entry runs: a line with a bye result and a named
\* opponent, a line that pairs a player with themselves, and a match
\* followed by a bye line
EntryTexts ==
    { << Parsed(1, 1, 2, "bye") >>,
      << Parsed(1, 1, 1, "2-0") >>,
      << Parsed(1, 1, 2, "2-0"), Parsed(1, 3, None, "bye") >> }

\* the forms of the entry runs: results of every kind, a bye on either side
\* and on both, a player paired with themselves, a result that is no option
\* of the select, a bye result for two players, and two pairings of which
\* the second is incomplete
EntryForms ==
    { << Pairing(1, 2, "2-0") >>,
      << Pairing(2, 1, "1-1") >>,
      << Pairing(2, 3, "0-2") >>,
      << Pairing(3, ByeOption, "") >>,
      << Pairing(ByeOption, 3, "") >>,
      << Pairing(ByeOption, ByeOption, "") >>,
      << Pairing(1, 1, "2-0") >>,
      << Pairing(1, 2, "3-3") >>,
      << Pairing(1, 2, "bye") >>,
      << Pairing(1, 3, "2-1"), Pairing(2, None, "2-0") >> }

\* the scorekeeper creates manual tournaments and imports, enters rounds of
\* up to MaxEntered matches, opens the views and finalizes the imports
NextEntry ==
    \/ \E type \in LifeTypes :
          RoomFor(LifeTournaments)
              /\ new_tournament_manual("keeper", type, type, {1, 2, 3})
    \/ \E type \in LifeTypes, text \in EntryTexts :
          RoomFor(LifeTournaments) /\ new_tournament("keeper", type, type, text)
    \/ \E tid \in Tids, form \in EntryForms :
          Len(matches[tid]) < MaxEntered /\ tournament_round_post("keeper", tid, 1, form)
    \/ \E tid \in Tids : tournament_round("keeper", tid, tourn[tid].confirm_token, None)
    \/ \E tid \in Tids : tournament_standings(tid)
    \/ \E tid \in Tids : apply_top_cut("keeper", tid, NoCut)

SpecEntry == Init /\ [][NextEntry]_vars

\* the scorekeeper imports a tournament while every name of the text has
\* its Player row, finalizes it, saves decks, and deletes and merges players
NextPlayers ==
    \/ RoomFor(LifeTournaments) /\ players = Players
          /\ new_tournament("keeper", "competitive", "competitive",
                            << Parsed(1, 1, 2, "2-0"), Parsed(1, 3, None, "bye") >>)
    \/ \E tid \in Tids : tournament_round("keeper", tid, tourn[tid].confirm_token, None)
    \/ \E tid \in Tids : apply_top_cut("keeper", tid, NoCut)
    \/ \E tid \in Tids : tournament_standings(tid)
    \/ \E tid \in Tids, player_id \in players : submit_deck("keeper", tid, player_id)
    \/ \E pid \in Players : delete_player("keeper", pid)
    \/ \E source_id \in Players, target_id \in Players :
          merge_player("keeper", source_id, target_id)

SpecPlayers == Init /\ [][NextPlayers]_vars

\* Match rows the standings calculator is run on: results of every kind, one
\* with a result that result_to_scores does not know, and a bye
StoredMatches ==
    { Match(1, 1, 2, "2-0"), Match(1, 2, 1, "0-2"), Match(1, 1, 2, "1-1"),
      Match(2, 2, 3, "2-1"), Match(2, 1, 3, "3-3"), Match(2, 1, 2, "3-3"),
      Match(1, 3, None, "bye") }

\* one pending import of players 1, 2, 3, competitive or casual, with up to
\* MaxStored of these rows, its confirm link followed by the scorekeeper
InitStandings ==
    \E ms \in UNION {[1..n -> StoredMatches] : n \in 0..MaxStored}, casual \in BOOLEAN :
        /\ elo = [p \in Players |-> DEFAULT_ELO]
        /\ tourn = [t \in Tids |->
                      IF t = 1
                      THEN [exists |-> TRUE, pending |-> TRUE, confirm_token |-> 1,
                            edit_token |-> None, imported_from_text |-> TRUE,
                            casual |-> casual, premium |-> FALSE, store_id |-> None,
                            user_id |-> "keeper", top_cut |-> NoCut]
                      ELSE NoTournament]
        /\ matches = [t \in Tids |-> IF t = 1 THEN ms ELSE <<>>]
        /\ tps = [t \in Tids |-> IF t = 1 THEN Players ELSE {}]
        /\ decks = [t \in Tids |-> {}]
        /\ players = Players
        /\ store = [premium |-> TRUE,
                    competitive_tokens |-> DEFAULT_COMPETITIVE_TOKENS,
                    premium_tokens |-> DEFAULT_PREMIUM_TOKENS]
        /\ session = [u \in Users |->
                        [tok |-> [t \in Tids |-> IF u = "keeper" /\ t = 1 THEN 1 ELSE None],
                         edit |-> [t \in Tids |-> None]]]
        /\ req = [r \in Requests |-> IdleRequest]
        /\ last = [op |-> "tournament_round", user |-> "keeper", tid |-> 1,
                   status |-> "", body |-> <<>>]

\* the two standings views of the import
NextStandings ==
    \/ tournament_standings(1)
    \/ tournament_round("keeper", 1, None, None)

SpecStandings == InitStandings /\ [][NextStandings]_vars

\* the ratings, the tournament types and the pairings the rating engine is
\* run on
EloRatings == {600, 984, 1000, 1016, 1500}
EloTypes == {"competitive", "premium"}
EloForms ==
    { << Pairing(a, b, result) >> :
         a \in {1, 2}, b \in {1, 2}, result \in {"2-0", "0-2", "1-1", "2-1", "1-2"} }

\* players 1 and 2 with ratings of EloRatings; tournament 1 is a manual
\* tournament of the three players without a round entered, tournaments 2
\* and 3 are manual tournaments of the players of vets, who so have three
\* finalized tournaments while the others have one
InitElo ==
    \E ra \in EloRatings, rb \in EloRatings, type \in EloTypes, vets \in SUBSET {1, 2} :
        /\ elo = [p \in Players |-> IF p = 1 THEN ra ELSE IF p = 2 THEN rb ELSE DEFAULT_ELO]
        /\ tourn = [t \in Tids |->
                      [exists |-> TRUE, pending |-> FALSE, confirm_token |-> None,
                       edit_token |-> None, imported_from_text |-> FALSE,
                       casual |-> FALSE, premium |-> (t = 1 /\ type = "premium"),
                       store_id |-> None, user_id |-> "keeper", top_cut |-> NoCut]]
        /\ matches = [t \in Tids |-> <<>>]
        /\ tps = [t \in Tids |-> IF t = 1 THEN Players ELSE vets]
        /\ decks = [t \in Tids |-> {}]
        /\ players = Players
        /\ store = [premium |-> TRUE,
                    competitive_tokens |-> DEFAULT_COMPETITIVE_TOKENS,
                    premium_tokens |-> DEFAULT_PREMIUM_TOKENS]
        /\ session = [u \in Users |-> [tok |-> [t \in Tids |-> None],
                                       edit |-> [t \in Tids |-> None]]]
        /\ req = [r \in Requests |-> IdleRequest]
        /\ last = [op |-> "new_tournament", user |-> "keeper", tid |-> 3,
                   status |-> "created_manual", body |-> <<>>]

\* the scorekeeper enters one match of round 1 of tournament 1
NextElo ==
    \E form \in EloForms :
        matches[1] = <<>> /\ tournament_round_post("keeper", 1, 1, form)

SpecElo == InitElo /\ [][NextElo]_vars

NextRace ==
    \/ RoomFor(LifeTournaments)
          /\ new_tournament("keeper", "competitive", "competitive", << Parsed(1, 1, 2, "2-0") >>)
    \/ \E tid \in Tids : tournament_round("keeper", tid, tourn[tid].confirm_token, None)
    \/ \E tid \in Tids : set_tournament_store("keeper", tid, STORE)
    \/ \E tid \in Tids : discard_tournament("keeper", tid)
    \/ \E tid \in Tids : submit_deck("keeper", tid, 1)
    \/ \E r \in Requests, tid \in Tids, cut \in CutInputs :
          apply_top_cut_begin(r, "keeper", tid, cut)
    \/ \E r \in Requests : apply_top_cut_finish(r)

SpecRace == Init /\ [][NextRace]_vars

\* the imports of the preview runs: two rounds in which player 1 plays
\* twice, the two rounds of players 2 and 3 pasted with the later round
\* first, and a single drawn match
PreviewTexts ==
    { << Parsed(1, 1, 2, "2-0"), Parsed(2, 2, 1, "1-1") >>,
      << Parsed(1, 1, 2, "2-0"), Parsed(2, 1, 3, "0-2") >>,
      << Parsed(2, 2, 3, "1-1"), Parsed(1, 3, 2, "0-2") >>,
      << Parsed(1, 2, 3, "1-1") >> }

\* the scorekeeper imports, follows the link with the confirm token to the
\* round view, looks at the standings and finalizes
NextPreview ==
    \/ \E type \in LifeTypes, text \in PreviewTexts :
          RoomFor(RatingTournaments) /\ new_tournament("keeper", type, type, text)
    \/ \E tid \in Tids : tournament_round("keeper", tid, tourn[tid].confirm_token, None)
    \/ \E tid \in Tids : tournament_standings(tid)
    \/ \E tid \in Tids : apply_top_cut("keeper", tid, NoCut)

SpecPreview == Init /\ [][NextPreview]_vars

(* ------------------------------- import_text --------------------------- *)
\* the loop of import_text over the parsed matches: a line without opponent
\* adds a bye row, every other line is rated by update_elo at once
RECURSIVE ImportElo(_, _, _)
ImportElo(e, text, tournament) ==
    IF text = <<>> THEN e
    ELSE LET m == Head(text)
             scores == ScoresOrDraw(m.result)
         IN IF m.opponent = None
            THEN ImportElo(e, Tail(text), tournament)
            ELSE ImportElo(update_elo(e, m.player, m.opponent,
                                      scores[1], scores[2], tournament),
                           Tail(text), tournament)

\* POST /tournament/<tid>/import_text, a route without login_required; text
\* is the parsed eventlink_text (<<>>: nothing pasted), its names those of
\* existing Player rows (ensure_player creates none)
import_text(tid, text) ==
    /\ tourn[tid].exists
    /\ PlayersOf(text) \subseteq players
    /\ UNCHANGED <<tourn, tps, store, decks, session, req, players>>
    /\ IF text = <<>>
       THEN Respond("import_text", "anyone", tid, "no_text") /\ UNCHANGED <<elo, matches>>
       ELSE /\ matches' = [matches EXCEPT ![tid] = @ \o
                    [i \in 1..Len(text) |->
                        IF text[i].opponent = None
                        THEN Match(text[i].round, text[i].player, None, "bye")
                        ELSE Match(text[i].round, text[i].player, text[i].opponent,
                                   text[i].result)]]
            /\ elo' = ImportElo(elo, text, tourn[tid])
            /\ Respond("import_text", "anyone", tid, "imported")

(* --------------------- cleanup_expired_tournaments --------------------- *)
\* the pending tournaments submitted before the cut-off, for a cut-off at
\* the submission of tournament first_kept (MaxTournaments + 1: after all)
Expired(first_kept) ==
    {t \in Tids : tourn[t].exists /\ tourn[t].pending
                  /\ submitted_at(t) < submitted_at(first_kept)}

\* /players calls cleanup_expired_tournaments before it renders the list
cleanup_expired_tournaments(first_kept) ==
    /\ tourn' = [t \in Tids |-> IF t \in Expired(first_kept) THEN NoTournament ELSE tourn[t]]
    /\ matches' = [t \in Tids |-> IF t \in Expired(first_kept) THEN <<>> ELSE matches[t]]
    /\ decks' = [t \in Tids |-> IF t \in Expired(first_kept) THEN {} ELSE decks[t]]
    /\ tps' = [t \in Tids |-> IF t \in Expired(first_kept) THEN {} ELSE tps[t]]
    /\ UNCHANGED <<elo, store, session, req, players>>
    /\ Respond("players", "anyone", None,
               IF Expired(first_kept) = {} THEN "listed" ELSE "cleaned")

\* text is imported while every rating is within MaxDrift of the default
MaxDrift == 40

\* the texts pasted into import_text: nothing, a win of player 2
PendingTexts ==
    { <<>>, << Parsed(1, 2, 3, "2-0") >> }

\* the scorekeeper imports, previews, finalizes, discards, edits once, saves
\* and deletes tournaments; anyone posts to import_text and opens /players
NextPending ==
    \/ \E text \in LifeTexts :
          RoomFor(RatingTournaments)
              /\ new_tournament("keeper", "competitive", "competitive", text)
    \/ \E tid \in Tids : tournament_round("keeper", tid, tourn[tid].confirm_token, None)
    \/ \E tid \in Tids : tournament_standings(tid)
    \/ \E tid \in Tids : apply_top_cut("keeper", tid, NoCut)
    \/ \E tid \in Tids : discard_tournament("keeper", tid)
    \/ \E tid \in Tids, text \in PendingTexts :
          /\ Len(matches[tid]) < MaxEntered
          /\ \A p \in Players : elo[p] \in (DEFAULT_ELO - MaxDrift)..(DEFAULT_ELO + MaxDrift)
          /\ import_text(tid, text)
    \/ \E first_kept \in 1..(MaxTournaments + 1) : cleanup_expired_tournaments(first_kept)
    \/ \E tid \in Tids : session["keeper"].edit[tid] = None /\ edit_tournament("keeper", tid)
    \/ \E tid \in Tids : is_editing(tid) /\ finalize_tournament_edit("keeper", tid)
    \/ \E tid \in Tids : delete_tournament("keeper", tid)

SpecPending == Init /\ [][NextPending]_vars

(* ---------------------- reset_store_tokens_if_needed ------------------- *)
\* GET /tournament/new lists the stores of the user with
\* get_user_store_tokens, which resets the counts of a store whose
\* last_token_reset lies in an earlier month (the date is not part of the
\* state: the step is taken when a new month has begun); the defaults of the
\* store are those of the columns
reset_store_tokens_if_needed(u) ==
    /\ stores_for_user(u) # {}
    /\ store' = [store EXCEPT
            !.competitive_tokens = DEFAULT_COMPETITIVE_TOKENS,
            !.premium_tokens = IF store.premium THEN DEFAULT_PREMIUM_TOKENS ELSE 0]
    /\ UNCHANGED <<elo, tourn, matches, tps, decks, session, req, players>>
    /\ Respond("new_tournament_form", u, None, "tokens_reset")

\* the tournament types of the token runs
TokenTypes == {"premium", "competitive", "casual"}

\* the scorekeeper imports tournaments of every type, follows the confirm
\* link, assigns the store and finalizes; a new month resets the counts
NextTokens ==
    \/ \E type \in TokenTypes :
          RoomFor(RatingTournaments)
              /\ new_tournament("keeper", type, type, << Parsed(1, 1, 2, "2-0") >>)
    \/ \E tid \in Tids : tournament_round("keeper", tid, tourn[tid].confirm_token, None)
    \/ \E tid \in Tids : set_tournament_store("keeper", tid, STORE)
    \/ \E tid \in Tids : apply_top_cut("keeper", tid, NoCut)
    \/ reset_store_tokens_if_needed("keeper")

SpecTokens == Init /\ [][NextTokens]_vars

(* ============================== claims ================================= *)
\* this step is a request op being handled
Handled(op) == last'.op = op


(* ------------------------------- C1 ------------------------------------ *)
\* C1: when two apply_top_cut requests for one pending tournament overlap,
\* the request that goes on after the row has stopped being pending changes
\* no rating, consumes no store token and is not answered as a finalization.
C1_SecondFinalizeRejected ==
    [][\A r \in Requests :
          (apply_top_cut_finish(r) /\ tourn[req[r].tid].exists /\ ~tourn[req[r].tid].pending)
              => (elo' = elo /\ store' = store /\ last'.status # "finalized")]_vars

(* ------------------------------- C2 ------------------------------------ *)
\* the finalized tournaments t of player_id submitted before tournament tid
PlayedBefore(player_id, tid) ==
    Cardinality({t \in Tids : tourn[t].exists /\ ~tourn[t].pending
                               /\ submitted_at(t) < submitted_at(tid)
                               /\ player_id \in tps[t]})

\* the match m of tournament tid applied to the ratings e, each side with the
\* k-factor it had when tid was submitted
HistoryMatch(e, m, tid) ==
    IF m.result = "bye" \/ m.player1_id = None \/ m.player2_id = None THEN e
    ELSE
    LET scores == ScoresOrDraw(m.result)
        result_a == IF scores[1] > scores[2] THEN 2 ELSE IF scores[1] < scores[2] THEN 0 ELSE 1
        k == IF tourn[tid].premium THEN K_PREMIUM
             ELSE IF tourn[tid].casual THEN K_CASUAL ELSE K_NORMAL
        k_a == IF PlayedBefore(m.player1_id, tid) < PROVISIONAL_TOURNAMENTS THEN k * 3 ELSE k
        k_b == IF PlayedBefore(m.player2_id, tid) < PROVISIONAL_TOURNAMENTS THEN k * 3 ELSE k
        delta_a == EloDelta(k_a, result_a, e[m.player2_id] - e[m.player1_id])
        delta_b == EloDelta(k_b, 2 - result_a, e[m.player1_id] - e[m.player2_id])
    IN IF m.player1_id = m.player2_id
       THEN [e EXCEPT ![m.player1_id] = @ + delta_a + delta_b]
       ELSE [e EXCEPT ![m.player1_id] = @ + delta_a, ![m.player2_id] = @ + delta_b]

RECURSIVE HistoryMatches(_, _, _)
HistoryMatches(e, ms, tid) ==
    IF ms = <<>> THEN e
    ELSE HistoryMatches(HistoryMatch(e, Head(ms), tid), Tail(ms), tid)

\* the finalized tournaments from tid on, ascending submitted_at, each in
\* round order, applied to the ratings e
RECURSIVE HistoryFrom(_, _)
HistoryFrom(e, tid) ==
    IF tid > MaxTournaments THEN e
    ELSE IF tourn[tid].exists /\ ~tourn[tid].pending
    THEN HistoryFrom(HistoryMatches(e, OrderByRound(matches[tid], 1), tid), tid + 1)
    ELSE HistoryFrom(e, tid + 1)

\* every player at the default rating, then the whole history
HistoryReplay == HistoryFrom([p \in Players |-> DEFAULT_ELO], 1)

\* C2: after finalize_edit on an edited tournament, every rating is the one
\* the replay of the whole history from the default rating gives, the
\* edited tournament with its corrected matches.  (finalize_edit changes no
\* match, roster or pending flag: the history is the same before and after.)
C2_EditEqualsHistoryReplay ==
    [][(Handled("finalize_tournament_edit") /\ last'.status = "saved"
            /\ is_editing(last'.tid))
          => elo' = HistoryReplay]_vars

(* ------------------------------- C3 ------------------------------------ *)
\* C3: recalculate_elo_from_timestamp run twice in a row with the cut-off of
\* a finalized tournament, tournaments and matches unchanged, gives after the
\* second run the ratings of the first run.
C3_RecalculationIdempotent ==
    \A tid \in Tids :
        (tourn[tid].exists /\ ~tourn[tid].pending)
            => recalculate_elo_from_timestamp(
                   recalculate_elo_from_timestamp(elo, submitted_at(tid)),
                   submitted_at(tid))
               = recalculate_elo_from_timestamp(elo, submitted_at(tid))

(* ------------------------------- C4 ------------------------------------ *)
\* C4: apply_top_cut and discard on a pending import take effect only for a
\* caller whose session holds the tournament's current confirm token; without
\* it the request changes nothing and is answered as a rejection.
C4_ConfirmTokenRequired ==
    [][LET u == last'.user
           tid == last'.tid
       IN (/\ Handled("apply_top_cut") \/ Handled("discard_tournament")
           /\ tourn[tid].exists /\ tourn[tid].pending
           /\ ~SessionHolds(session[u].tok[tid], tourn[tid].confirm_token))
          => (UNCHANGED db /\ last'.status \notin {"finalized", "deleted"})]_vars

(* ------------------------------- C5 ------------------------------------ *)
\* C5: finalize_edit takes effect only on a tournament in EDITING and for a
\* caller whose session holds its current edit token; otherwise no rating
\* and no tournament row changes and the request is answered as a rejection.
C5_EditTokenRequired ==
    [][LET u == last'.user
           tid == last'.tid
       IN (/\ Handled("finalize_tournament_edit")
           /\ ~(is_editing(tid)
                /\ SessionHolds(session[u].edit[tid], tourn[tid].edit_token)))
          => (elo' = elo /\ tourn' = tourn /\ last'.status # "saved")]_vars

(* ------------------------------- C6 ------------------------------------ *)
\* the caller may edit, the tournament carries an edit token and the
\* caller's session holds that token
MayUpdateMatches(u, tid) ==
    /\ can_edit(u, tid)
    /\ tourn[tid].edit_token # None
    /\ session[u].edit[tid] = tourn[tid].edit_token

\* C6: update_match_results is answered with success only for an owner or
\* admin whose session holds the tournament's active edit token; every other
\* request is answered as a rejection and changes no stored row.
C6_MatchUpdateAuthorized ==
    [][Handled("update_match_results")
          => IF MayUpdateMatches(last'.user, last'.tid)
             THEN last'.status = "success"
             ELSE /\ UNCHANGED db
                  /\ last'.status \in {"forbidden", "not_edit_mode", "invalid_session"}]_vars

\* a match update of a caller who may edit was rejected because the session
\* holds an edit token of the tournament that is not the current one
C6_StaleSessionRejected ==
    /\ last.op = "update_match_results"
    /\ last.status = "invalid_session"
    /\ can_edit(last.user, last.tid)
    /\ session[last.user].edit[last.tid] # None
    /\ tourn[last.tid].edit_token # None
    /\ session[last.user].edit[last.tid] # tourn[last.tid].edit_token

(* ------------------------------- C7 ------------------------------------ *)
\* the session of u holds an edit token of tournament tid that is not its
\* current edit token: the edit it was minted for has been finalized, or the
\* tournament has been reopened with a newer token
HoldsEarlierEditToken(u, tid) ==
    /\ tourn[tid].exists
    /\ session[u].edit[tid] # None
    /\ session[u].edit[tid] # tourn[tid].edit_token

\* C7: a caller who presents an earlier edit token of a tournament, and not
\* the current one, is rejected by the round view, the match update and the
\* metadata and store updates, while the tournament is FINALIZED and after
\* it has been reopened.
C7_EarlierEditTokenRejected ==
    [][LET u == last'.user
           tid == last'.tid
       IN (/\ \/ Handled("tournament_round") \/ Handled("update_match_results")
              \/ Handled("update_tournament_metadata") \/ Handled("set_tournament_store")
           /\ HoldsEarlierEditToken(u, tid)
           /\ session'[u].edit[tid] = session[u].edit[tid])
          => (/\ last'.status \notin {"page", "round_form", "success", "updated", "store_set"}
              /\ UNCHANGED db)]_vars

(* ------------------------------- C8 ------------------------------------ *)
\* C8: no tournament is pending and carries an edit token; a row gets a new
\* edit token only while it is not pending, and edit_tournament on a pending
\* tournament mints nothing and changes neither the rows nor the sessions.
C8_EditingOnlyFromFinalized ==
    /\ [](\A tid \in Tids : ~(tourn[tid].pending /\ tourn[tid].edit_token # None))
    /\ [][/\ \A tid \in Tids :
                (tourn'[tid].edit_token # None
                    /\ tourn'[tid].edit_token # tourn[tid].edit_token)
                  => (tourn[tid].exists /\ ~tourn[tid].pending)
          /\ (Handled("edit_tournament") /\ tourn[last'.tid].pending)
                => (UNCHANGED <<db, session>>
                    /\ last'.status \in {"forbidden", "pending"})]_vars

\* edit_tournament was refused on a tournament that is still pending
C8_EditRefusedWhilePending ==
    /\ last.op = "edit_tournament"
    /\ last.status = "pending"
    /\ tourn[last.tid].pending
    /\ tourn[last.tid].confirm_token # None
    /\ tourn[last.tid].edit_token = None

(* ------------------------------- C9 ------------------------------------ *)
\* C9: a completed apply_top_cut leaves the confirm token null, a completed
\* finalize_edit or casual edit submission leaves the edit token null, and no
\* tournament that is not pending carries a confirm token.
C9_TokensClearedOnCompletion ==
    /\ [](\A tid \in Tids : ~tourn[tid].pending => tourn[tid].confirm_token = None)
    /\ [][/\ (Handled("apply_top_cut") /\ last'.status = "finalized")
                => (tourn'[last'.tid].confirm_token = None /\ ~tourn'[last'.tid].pending)
          /\ (Handled("finalize_tournament_edit") /\ last'.status = "saved")
                => tourn'[last'.tid].edit_token = None
          /\ (Handled("edit_casual_tournament") /\ last'.status = "updated")
                => tourn'[last'.tid].edit_token = None]_vars

\* an edit has been completed: the row carries no token any more while the
\* session of the caller still holds the one that was minted for the edit
C9_EditTokenCleared ==
    /\ last.op = "finalize_tournament_edit"
    /\ last.status = "saved"
    /\ ~tourn[last.tid].pending
    /\ tourn[last.tid].edit_token = None
    /\ tourn[last.tid].confirm_token = None
    /\ session[last.user].edit[last.tid] # None

(* ------------------------------- C10 ----------------------------------- *)
\* C10: a request for the standings or for the imported-tournament preview
\* of the round view changes no stored rating, tournament, match or roster,
\* and answers with the page computed from them: the same rows every time.
C10_PreviewChangesNothing ==
    [][/\ Handled("tournament_standings")
            => /\ UNCHANGED db
               /\ last'.status = "page" => last'.body = StandingsPage(last'.tid)
       /\ Handled("tournament_round")
            => /\ UNCHANGED db
               /\ last'.status = "page" => last'.body = RoundPage(last'.tid)]_vars

\* a preview page was shown with a rating change in one of its rows
C10_PreviewShown ==
    /\ last.op \in {"tournament_standings", "tournament_round"}
    /\ last.status = "page"
    /\ \E i \in 1..Len(last.body.standings) : last.body.standings[i].elo_delta # 0

(* ------------------------------- C11 ----------------------------------- *)
\* the matches ms that a view previews, applied one after another to the
\* ratings e: each match sees the ratings the matches before it produced
RECURSIVE AppliedInTurn(_, _, _, _)
AppliedInTurn(e, ms, tournament, view) ==
    IF ms = <<>> THEN e
    ELSE LET m == Head(ms)
             scores == ScoresOrDraw(m.result)
         IN AppliedInTurn(IF Previewed(view, m)
                          THEN update_elo(e, m.player1_id, m.player2_id,
                                          scores[1], scores[2], tournament)
                          ELSE e,
                          Tail(ms), tournament, view)

\* C11: the rating change a preview page shows for a player is the net change
\* of that player's rating when the tournament's matches are applied one
\* after another in round order, starting from the stored ratings.
C11_PreviewDeltaIsNetChange ==
    [][\A view \in {"standings", "round"} :
          (Handled("tournament_" \o view) /\ last'.status = "page")
            => LET tid == last'.tid
                   after == AppliedInTurn(elo, OrderByRound(matches[tid], 1),
                                          tourn[tid], view)
               IN \A i \in 1..Len(last'.body.standings) :
                     LET row == last'.body.standings[i]
                     IN row.elo_delta = after[row.player] - elo[row.player]]_vars

(* ------------------------------- C12 ----------------------------------- *)
\* C12: apply_top_cut or discard on a tournament that is not pending any more
\* (finalized, being edited, or deleted) changes no stored row and is
\* answered with one of the handler's ordinary responses.
C12_NoOpWhenNotPending ==
    [][LET tid == last'.tid
       IN (/\ Handled("apply_top_cut") \/ Handled("discard_tournament")
           /\ ~(tourn[tid].exists /\ tourn[tid].pending))
          => (/\ UNCHANGED db
              /\ last'.status \in {"not_found", "forbidden", "already_finalized",
                                   "ignored"})]_vars

\* a finalize request of the scorekeeper was turned down on a tournament that
\* is being edited and has a store
C12_FinalizeTurnedDown ==
    /\ last.op = "apply_top_cut"
    /\ last.status = "already_finalized"
    /\ is_scorekeeper(last.user)
    /\ is_editing(last.tid)
    /\ tourn[last.tid].store_id # None

(* ------------------------------- C13 ----------------------------------- *)
\* C13: discard by an admin or scorekeeper on an imported tournament that is
\* pending deletes the Tournament row and every Match, TournamentPlayer and
\* Deck row of the tournament, changes nothing of another tournament and
\* leaves every rating as it was.
C13_DiscardDeletesAllRows ==
    [][LET u == last'.user
           tid == last'.tid
       IN (/\ Handled("discard_tournament")
           /\ is_admin(u) \/ is_scorekeeper(u)
           /\ tourn[tid].exists /\ tourn[tid].imported_from_text /\ tourn[tid].pending)
          => (/\ last'.status = "deleted"
              /\ ~tourn'[tid].exists
              /\ matches'[tid] = <<>> /\ tps'[tid] = {} /\ decks'[tid] = {}
              /\ \A t \in Tids \ {tid} :
                    /\ tourn'[t] = tourn[t] /\ matches'[t] = matches[t]
                    /\ tps'[t] = tps[t] /\ decks'[t] = decks[t]
              /\ elo' = elo /\ store' = store)]_vars

\* a pending import has been discarded while a finalize request that had read
\* its row was still under way
C13_DiscardedUnderway ==
    /\ last.op = "discard_tournament"
    /\ last.status = "deleted"
    /\ ~tourn[last.tid].exists
    /\ matches[last.tid] = <<>> /\ tps[last.tid] = {} /\ decks[last.tid] = {}
    /\ \E r \in Requests : req[r].pc = "loaded" /\ req[r].tid = last.tid

(* ------------------------------- C14 ----------------------------------- *)
\* C14: when apply_top_cut or finalize_edit fails part-way, nothing of the
\* request is committed: ratings, the tournament rows with their pending flag
\* and tokens, the store token counts and every other stored row are as they
\* were before the request.
C14_FailureCommitsNothing ==
    [][(/\ Handled("apply_top_cut") \/ Handled("finalize_tournament_edit")
        /\ last'.status = "error")
          => UNCHANGED db]_vars

\* a finalize_edit failed on a tournament that is being edited, after a first
\* tournament has changed ratings: the edit token is still on the row
C14_EditFailed ==
    /\ last.op = "finalize_tournament_edit"
    /\ last.status = "error"
    /\ is_editing(last.tid)
    /\ \E p \in Players : elo[p] # DEFAULT_ELO

(* ------------------------------- C15 ----------------------------------- *)
\* C15: the ratings after apply_top_cut has finalized a tournament are the
\* ratings before it with update_elo applied once for every match that is
\* not a bye, the matches taken in ascending round order.
C15_FinalizeInRoundOrder ==
    [][(Handled("apply_top_cut") /\ last'.status = "finalized")
          => elo' = FinalizeElo(elo, OrderByRound(matches[last'.tid], 1),
                                tourn[last'.tid])]_vars

(* ------------------------------- C16 ----------------------------------- *)
\* the finalized tournaments of player_id other than tournament tid
FinalizedBefore(player_id, tid) ==
    Cardinality({t \in Tids \ {tid} : tourn[t].exists /\ ~tourn[t].pending
                                        /\ player_id \in tps[t]})

\* the Elo loop of apply_top_cut over the matches ms of the pending
\* tournament tid, each side with the k-factor of its finalized tournaments
\* prior to tid
RECURSIVE FinalizeWithPriorK(_, _, _)
FinalizeWithPriorK(e, ms, tid) ==
    IF ms = <<>> THEN e
    ELSE LET m == Head(ms)
             scores == ScoresOrDraw(m.result)
         IN IF m.player1_id = None \/ m.player2_id = None
            THEN FinalizeWithPriorK(e, Tail(ms), tid)
            ELSE FinalizeWithPriorK(
                     update_elo_played(e, m.player1_id, m.player2_id,
                                       scores[1], scores[2], tourn[tid],
                                       FinalizedBefore(m.player1_id, tid),
                                       FinalizedBefore(m.player2_id, tid)),
                     Tail(ms), tid)

\* the replay loop of the recalculation over the tournaments of ts from id
\* tid on, each match with the k-factors of the tournaments finalized and
\* submitted before its own
RECURSIVE ReplayWithPriorK(_, _, _)
ReplayWithPriorK(e, ts, tid) ==
    IF tid > MaxTournaments THEN e
    ELSE IF tid \in ts
    THEN ReplayWithPriorK(HistoryMatches(e, OrderByRound(matches[tid], 1), tid), ts, tid + 1)
    ELSE ReplayWithPriorK(e, ts, tid + 1)

\* recalculate_elo_from_timestamp with those k-factors
RecalculationWithPriorK(e, from_timestamp) ==
    LET tournaments == {t \in Tids : tourn[t].exists /\ ~tourn[t].pending
                                     /\ submitted_at(t) >= from_timestamp}
        affected_player_ids == UNION {tps[t] : t \in tournaments}
        earlier_tournaments == {t \in Tids : tourn[t].exists /\ ~tourn[t].pending
                                             /\ submitted_at(t) < from_timestamp}
        reset == [p \in Players |-> IF p \in affected_player_ids THEN DEFAULT_ELO ELSE e[p]]
    IN ReplayWithPriorK(ReplayWithPriorK(reset, earlier_tournaments, 1), tournaments, 1)

\* C16: a match of tournament T is rated, for each side on its own, with the
\* base k of T (48 premium, 16 casual, 32 otherwise) times 3 exactly when the
\* player has fewer than 3 finalized tournaments prior to T, when T is
\* finalized and when the recalculation replays T.
C16_KFactorFromPriorTournaments ==
    [][/\ (Handled("apply_top_cut") /\ last'.status = "finalized")
            => elo' = FinalizeWithPriorK(elo, matches[last'.tid], last'.tid)
       /\ (Handled("finalize_tournament_edit") /\ last'.status = "saved")
            => elo' = RecalculationWithPriorK(elo, submitted_at(last'.tid))]_vars

(* ------------------------------- C17 ----------------------------------- *)
\* the outcome of m is the bye sentinel or one of its players is absent
ByeOrAbsent(m) == m.result = "bye" \/ m.player1_id = None \/ m.player2_id = None

\* the matches of ms that are neither
Rated(ms) == SelectSeq(ms, LAMBDA m : ~ByeOrAbsent(m))

\* every match of every finalized tournament other than gone is a bye or has
\* an absent player
OnlyByesBut(gone) ==
    \A t \in Tids \ {gone} :
        (tourn[t].exists /\ ~tourn[t].pending) => Rated(matches[t]) = <<>>

\* C17: a match whose outcome is the bye sentinel or whose opponent is absent
\* changes no rating.  Finalize and the previews give what they give without
\* those matches; a recalculation or the replay after a deletion over
\* tournaments that have no other match leaves every player at the rating
\* the replay starts from.
C17_ByesChangeNoRating ==
    [][LET tid == last'.tid
       IN /\ (Handled("apply_top_cut") /\ last'.status = "finalized")
               => elo' = FinalizeElo(elo, Rated(matches[tid]), tourn[tid])
          /\ \A view \in {"standings", "round"} :
               (Handled("tournament_" \o view) /\ last'.status = "page")
                 => \A i \in 1..Len(last'.body.standings) :
                       LET row == last'.body.standings[i]
                       IN row.elo_delta
                            = EloChanges(Rated(matches[tid]), row.player, tourn[tid], view)
          /\ (Handled("finalize_tournament_edit") /\ last'.status = "saved"
                /\ OnlyByesBut(None))
               => \A p \in Players : elo'[p] \in {elo[p], DEFAULT_ELO}
          /\ (Handled("delete_tournament") /\ last'.status = "deleted"
                /\ OnlyByesBut(tid))
               => elo' = [p \in Players |-> DEFAULT_ELO]]_vars

(* ------------------------------- C18 ----------------------------------- *)
\* C18: apply_top_cut that finalizes a pending tournament tied to a store
\* takes exactly one token from the store, a premium token for a premium
\* tournament and a competitive token otherwise; completing an edit of a
\* finalized tournament takes none.
C18_OneTokenPerFinalization ==
    [][LET tid == last'.tid
       IN /\ (Handled("apply_top_cut") /\ last'.status = "finalized"
                /\ tourn[tid].pending /\ tourn[tid].store_id # None)
               => store' = IF tourn[tid].premium
                           THEN [store EXCEPT !.premium_tokens = @ - 1]
                           ELSE [store EXCEPT !.competitive_tokens = @ - 1]
          /\ (\/ Handled("finalize_tournament_edit") /\ last'.status = "saved"
              \/ Handled("edit_casual_tournament") /\ last'.status = "updated")
               => store' = store]_vars

(* ------------------------------- C19 ----------------------------------- *)
\* C19: the top_cut apply_top_cut leaves on a tournament it finalizes is at
\* most the number of players of the tournament, whatever value the caller
\* supplied; a supplied value above the number of players is replaced by the
\* computed default.
C19_TopCutWithinPlayers ==
    [][(Handled("apply_top_cut") /\ last'.status = "finalized")
          => LET tid == last'.tid
                 n == Cardinality(tps[tid])
             IN /\ tourn'[tid].top_cut <= n
                /\ \A cut \in TopCutInputs(n) \ {NoCut} :
                      (cut > n /\ apply_top_cut(last'.user, tid, cut))
                        => /\ tourn'[tid].top_cut = default_top_cut(n)
                           /\ last'.body = <<"top_cut_too_large">>]_vars

\* a tournament of 17 players was finalized with a supplied top cut that was
\* too large: it has the default of 8
C19_TooLargeReplaced ==
    /\ last.op = "apply_top_cut"
    /\ last.status = "finalized"
    /\ last.body = <<"top_cut_too_large">>
    /\ Cardinality(tps[last.tid]) = 17
    /\ tourn[last.tid].top_cut = 8

(* ------------------------------- C20 ----------------------------------- *)
\* the tier table: top cut by number of players
TopCutTier(n) ==
    IF n \in 9..16 THEN 4
    ELSE IF n \in 17..216 THEN 8
    ELSE IF n \in 217..512 THEN 16
    ELSE IF n \in 513..2048 THEN 32
    ELSE 0

\* C20: apply_top_cut without a top-cut input sets top_cut from the tier
\* table by number of players: 4 for 9 to 16, 8 for 17 to 216, 16 for 217 to
\* 512, 32 for 513 to 2048, 0 for every other number.
C20_DefaultFromTierTable ==
    [][LET tid == last'.tid
       IN (/\ Handled("apply_top_cut") /\ last'.status = "finalized"
           /\ apply_top_cut(last'.user, tid, NoCut))
          => tourn'[tid].top_cut = TopCutTier(Cardinality(tps[tid]))]_vars

\* a tournament of 9 players was finalized without a top-cut input (a
\* supplied 0, 8 or 9 is kept, a supplied 10 is flashed): top_cut is 4
C20_NinePlayersGiveFour ==
    /\ last.op = "apply_top_cut"
    /\ last.status = "finalized"
    /\ last.body = <<>>
    /\ Cardinality(tps[last.tid]) = 9
    /\ tourn[last.tid].top_cut = 4

(* ------------------------------- C21 ----------------------------------- *)
\* C21: in every reachable state, every stored Match has player2_id absent
\* exactly when its result is "bye", whichever handler created or changed
\* the row.
C21_AbsentIffBye ==
    \A t \in Tids : \A i \in 1..Len(matches[t]) :
        (matches[t][i].player2_id = None) <=> (matches[t][i].result = "bye")

(* ------------------------------- C22 ----------------------------------- *)
\* C22: in every reachable state, no stored Match names one player as both
\* player1_id and player2_id, whether the row comes from a round form or
\* from an imported text.
C22_NoSelfPairing ==
    \A t \in Tids : \A i \in 1..Len(matches[t]) :
        matches[t][i].player1_id # None
            => matches[t][i].player1_id # matches[t][i].player2_id

(* ------------------------------- C23 ----------------------------------- *)
\* C23: after a delete_player or a merge_player request every stored Match
\* still names existing players as player1_id and as its player2_id, when it
\* has one: no Player that a Match refers to is deleted.
C23_ReferencedPlayersKept ==
    [][(Handled("delete_player") \/ Handled("merge_player"))
          => \A t \in Tids : \A i \in 1..Len(matches'[t]) :
                ({matches'[t][i].player1_id, matches'[t][i].player2_id} \ {None})
                    \subseteq players']_vars

(* ------------------------------- C24 ----------------------------------- *)
\* C24: an update_match_results request for tournament T that is accepted
\* changes no Match row of another tournament, and the edit token it is
\* accepted with is the one of T: no other tournament has it as its edit
\* token and no session holds it as the edit token of another tournament.
C24_EditTokenOwnTournament ==
    [][(Handled("update_match_results") /\ last'.status = "success")
          => LET tid == last'.tid
                 held == session[last'.user].edit[tid]
             IN /\ \A t \in Tids \ {tid} : matches'[t] = matches[t]
                /\ held = tourn[tid].edit_token
                /\ \A t \in Tids \ {tid} :
                      /\ tourn[t].edit_token # held
                      /\ \A u \in Users : session[u].edit[t] # held]_vars

\* a match result of one tournament was changed while another tournament,
\* with Match rows of its own, is being edited as well
C24_TwoTournamentsEdited ==
    /\ last.op = "update_match_results"
    /\ last.status = "success"
    /\ matches[last.tid][1].result = "1-1"
    /\ \E t \in Tids \ {last.tid} : is_editing(t) /\ matches[t] # <<>>

(* ------------------------------- C25 ----------------------------------- *)
\* the matches of ms that player p takes part in with the given role
WonBy(ms, p) ==
    {i \in 1..Len(ms) :
        \/ ms[i].result \in {"2-0", "2-1", "1-0"} /\ ms[i].player1_id = p
        \/ ms[i].result \in {"0-2", "1-2", "0-1"} /\ ms[i].player2_id = p}
LostBy(ms, p) ==
    {i \in 1..Len(ms) :
        \/ ms[i].result \in {"2-0", "2-1", "1-0"} /\ ms[i].player2_id = p
        \/ ms[i].result \in {"0-2", "1-2", "0-1"} /\ ms[i].player1_id = p}
DrawnBy(ms, p) ==
    {i \in 1..Len(ms) : ms[i].result = "1-1" /\ p \in {ms[i].player1_id, ms[i].player2_id}}
\* the byes of which p is the one non-absent player
ByesOf(ms, p) ==
    {i \in 1..Len(ms) :
        ms[i].result = "bye" /\ {ms[i].player1_id, ms[i].player2_id} \ {None} = {p}}

\* the row of a standings page agrees with the points rule over the matches
\* ms (a bye may or may not be shown as a win as well)
RowByPointsRule(row, ms) ==
    LET p == row.player
    IN /\ row.points = 3 * Cardinality(WonBy(ms, p)) + Cardinality(DrawnBy(ms, p))
                         + 3 * Cardinality(ByesOf(ms, p))
       /\ row.draws = Cardinality(DrawnBy(ms, p))
       /\ row.losses = Cardinality(LostBy(ms, p))
       /\ row.wins \in {Cardinality(WonBy(ms, p)),
                        Cardinality(WonBy(ms, p)) + Cardinality(ByesOf(ms, p))}

\* C25: on every standings page, each match has added 3 points and a win to
\* its winner, 1 point and a draw to either side of a draw, a loss and no
\* point to its loser, and a bye 3 points to its one non-absent player and
\* nothing to anybody else.
C25_PointsPerMatch ==
    [][((Handled("tournament_standings") \/ Handled("tournament_round"))
            /\ last'.status = "page")
          => \A i \in 1..Len(last'.body.standings) :
                RowByPointsRule(last'.body.standings[i], matches[last'.tid])]_vars

(* ------------------------------- C27 ----------------------------------- *)
\* C27: the standings views do not fail on a match that names a player
\* outside the roster of the tournament or has no player1_id: they answer
\* with a page that has the row of every player of the roster.
C27_StandingsSkipUnknownPlayers ==
    [][(Handled("tournament_standings") \/ Handled("tournament_round"))
          => /\ last'.status # "error"
             /\ last'.status = "page"
                  => {last'.body.standings[i].player :
                         i \in 1..Len(last'.body.standings)} = tps[last'.tid]]_vars

(* ------------------------------- C26 ----------------------------------- *)
\* the matches of ms with a result that is neither a known score nor a bye
UnknownOf(ms, p) ==
    {i \in 1..Len(ms) :
        /\ result_to_scores(ms[i].result) = <<>>
        /\ p \in {ms[i].player1_id, ms[i].player2_id}}

\* ms with every unknown result read as a draw
ReadAsDraws(ms) ==
    [i \in 1..Len(ms) |->
        IF result_to_scores(ms[i].result) = <<>>
        THEN [ms[i] EXCEPT !.result = "1-1"] ELSE ms[i]]

Entered == matches'[last'.tid][Len(matches'[last'.tid])]
RoundSubmitted == Handled("tournament_round") /\ last'.status = "round_submitted"

\* the two sides of the match m have the same k-factor
EqualK(m) ==
    (tournaments_played(m.player1_id) < PROVISIONAL_TOURNAMENTS)
        = (tournaments_played(m.player2_id) < PROVISIONAL_TOURNAMENTS)

\* C28: with the same k-factor on both sides, the ratings update_elo leaves
\* for an outcome are the ratings it gives for the mirrored outcome with the
\* two players swapped.
C28_MirroredOutcomeSwaps ==
    [][(RoundSubmitted /\ EqualK(Entered))
          => LET m == Entered
                 scores == result_to_scores(m.result)
             IN elo' = update_elo(elo, m.player2_id, m.player1_id,
                                  scores[2], scores[1], tourn[last'.tid])]_vars

\* a win of the lower rated of two players with the same k-factor was entered
C28_UpsetEntered ==
    /\ last.op = "tournament_round" /\ last.status = "round_submitted"
    /\ matches[1] = << Match(1, 2, 1, "2-0") >>
    /\ tournaments_played(1) = tournaments_played(2)
    /\ elo[2] > 600 /\ elo[2] < 984
    /\ elo[1] > 1016 /\ elo[1] < 1500

(* ------------------------------- C29 ----------------------------------- *)
\* C29: with the same k-factor on both sides and a decisive outcome, the
\* rating change of player A is the negative of the rating change of
\* player B.
C29_DecisiveIsZeroSum ==
    [][(RoundSubmitted /\ EqualK(Entered)
            /\ Entered.result \in {"2-0", "0-2", "2-1", "1-2"}
            /\ Entered.player1_id # Entered.player2_id)
          => elo'[Entered.player1_id] - elo[Entered.player1_id]
               = -(elo'[Entered.player2_id] - elo[Entered.player2_id])]_vars

\* player 1, rated 1500, lost 1-2 to player 2, rated 600, both in their
\* third tournament of normal k-factor: 32 points changed sides
C29_FavouriteLost ==
    /\ last.op = "tournament_round" /\ last.status = "round_submitted"
    /\ matches[1] = << Match(1, 1, 2, "1-2") >>
    /\ tournaments_played(1) = 3 /\ tournaments_played(2) = 3
    /\ elo[1] = 1468 /\ elo[2] = 632

(* ------------------------------- C30 ----------------------------------- *)
\* C30: two players rated 1000, both with k-factor 32: after player A beats
\* player B 2-0 the ratings are 1016 for A and 984 for B.
C30_EvenMatchExample ==
    [][(RoundSubmitted
            /\ Entered.result = "2-0"
            /\ Entered.player1_id # Entered.player2_id
            /\ elo[Entered.player1_id] = 1000 /\ elo[Entered.player2_id] = 1000
            /\ ~tourn[last'.tid].premium /\ ~tourn[last'.tid].casual
            /\ tournaments_played(Entered.player1_id) >= PROVISIONAL_TOURNAMENTS
            /\ tournaments_played(Entered.player2_id) >= PROVISIONAL_TOURNAMENTS)
          => /\ elo'[Entered.player1_id] = 1016
             /\ elo'[Entered.player2_id] = 984]_vars

\* player 2 beat player 1 2-0, both in their third tournament, and the
\* ratings are 984 and 1016
C30_EvenMatchPlayed ==
    /\ last.op = "tournament_round" /\ last.status = "round_submitted"
    /\ matches[1] = << Match(1, 2, 1, "2-0") >>
    /\ ~tourn[1].premium
    /\ tournaments_played(1) = 3 /\ tournaments_played(2) = 3
    /\ elo[2] = 1016 /\ elo[1] = 984


(* ------------------------------- C31 ----------------------------------- *)
\* the players on the roster of a finalized tournament submitted at or
\* after from_timestamp
PlayedSince(from_timestamp) ==
    UNION {tps[t] : t \in {t \in Tids : tourn[t].exists /\ ~tourn[t].pending
                                        /\ submitted_at(t) >= from_timestamp}}

\* C31: the recalculation that finalize_edit runs with the cut-off of the
\* edited tournament leaves the rating of every player unchanged who is on
\* the roster of no finalized tournament submitted at or after the cut-off.
C31_RecalculationKeepsOthers ==
    [][(Handled("finalize_tournament_edit") /\ last'.status = "saved")
          => \A p \in Players :
                p \notin PlayedSince(submitted_at(last'.tid)) => elo'[p] = elo[p]]_vars

(* ------------------------------- C32 ----------------------------------- *)
\* C32: finalize_edit posted right after edit_tournament opened the edit
\* session of a finalized tournament, no match changed in between, leaves
\* every player's rating as it was before the edit session.
C32_UnchangedEditKeepsRatings ==
    [][(/\ last.op = "edit_tournament" /\ last.status = "edit_rounds"
        /\ Handled("finalize_tournament_edit") /\ last'.status = "saved"
        /\ last'.tid = last.tid /\ last'.user = last.user
        /\ matches' = matches)
          => elo' = elo]_vars

(* ------------------------------- C33 ----------------------------------- *)
\* C33: when apply_top_cut finalizes a pending import right after the round
\* view showed its preview, the rating change committed to each player of
\* the standings is the ratingDelta the preview showed for that player.
C33_CommittedEqualsPreviewed ==
    [][(/\ last.op = "tournament_round" /\ last.status = "page"
        /\ Handled("apply_top_cut") /\ last'.status = "finalized"
        /\ last'.tid = last.tid)
          => \A i \in 1..Len(last.body.standings) :
                LET row == last.body.standings[i]
                IN elo'[row.player] - elo[row.player] = row.elo_delta]_vars

(* ------------------------------- C34 ----------------------------------- *)
\* C34: update_match_results on a tournament in EDITING changes at most the
\* result of Match rows of that tournament: every rating, the store's token
\* counts, every tournament row (pending flag and tokens included), the
\* rosters and the players and pairings of every match stay as they were.
C34_MatchUpdateChangesOutcomesOnly ==
    [][(Handled("update_match_results") /\ is_editing(last'.tid))
          => /\ UNCHANGED <<elo, store, tourn, tps, decks, players>>
             /\ \A t \in Tids :
                   IF t = last'.tid
                   THEN /\ Len(matches'[t]) = Len(matches[t])
                        /\ \A i \in 1..Len(matches[t]) :
                              [matches'[t][i] EXCEPT !.result = matches[t][i].result]
                                  = matches[t][i]
                   ELSE matches'[t] = matches[t]]_vars

\* the single match of tournament 1, imported as a 2-0 win of player 1 and
\* rated so at finalization, has been corrected to a draw in the edit
\* session, and the ratings are still those of the win
C34_OutcomeCorrectedRatingsKept ==
    /\ last.op = "update_match_results"
    /\ last.status = "success"
    /\ last.tid = 1
    /\ is_editing(1)
    /\ matches[1] = << Match(1, 1, 2, "1-1") >>
    /\ elo[1] = 1048 /\ elo[2] = 952

(* ------------------------------- C35 ----------------------------------- *)
\* C35: a rating changes only in a request on a tournament that is already
\* finalized (completion of an edit, deletion and replay) or in the
\* apply_top_cut that finalizes the tournament: no request on a tournament
\* that is pending (preview, text import, discard) and no expiry cleanup
\* changes a rating.
C35_PendingNeverRated ==
    [][elo' # elo
          => /\ last'.tid \in Tids
             /\ tourn[last'.tid].exists
             /\ \/ ~tourn[last'.tid].pending
                \/ Handled("apply_top_cut") /\ last'.status = "finalized"]_vars

(* ------------------------------- C36 ----------------------------------- *)
\* tournament tid is in EDITING and the session of u holds an edit token of
\* it that a later edit_tournament has replaced
HoldsReplacedEditToken(u, tid) ==
    /\ tourn[tid].exists
    /\ tourn[tid].edit_token # None
    /\ session[u].edit[tid] # None
    /\ session[u].edit[tid] # tourn[tid].edit_token

\* C36: edit_tournament on a tournament that carries an edit token puts a
\* new token in its place, and from then on the holder of the replaced token
\* is rejected by every edit operation (round view, match update, metadata
\* and store update, casual edit form, finalize_edit): the request changes
\* no stored row and is not answered as a success.
C36_OneEditSessionValid ==
    [][LET u == last'.user
           tid == last'.tid
       IN /\ (/\ Handled("edit_tournament")
              /\ last'.status \in {"edit_rounds", "edit_casual"}
              /\ tourn[tid].edit_token # None)
                => (/\ tourn'[tid].edit_token # None
                    /\ tourn'[tid].edit_token # tourn[tid].edit_token)
          /\ (/\ \/ Handled("tournament_round") \/ Handled("update_match_results")
                 \/ Handled("update_tournament_metadata") \/ Handled("set_tournament_store")
                 \/ Handled("edit_casual_tournament") \/ Handled("finalize_tournament_edit")
              /\ HoldsReplacedEditToken(u, tid)
              /\ session'[u].edit[tid] = session[u].edit[tid])
                => (/\ last'.status \notin {"page", "round_form", "success", "updated",
                                            "store_set", "form", "saved"}
                    /\ UNCHANGED db)]_vars

(* ------------------------------- C37 ----------------------------------- *)
\* C37: in every reachable state a tournament that carries a confirm token
\* is pending, and no tournament carries a confirm token and an edit token
\* at the same time.
C37_ConfirmTokenOnlyWhilePending ==
    \A tid \in Tids :
        /\ tourn[tid].confirm_token # None => (tourn[tid].exists /\ tourn[tid].pending)
        /\ ~(tourn[tid].confirm_token # None /\ tourn[tid].edit_token # None)

\* an import that was created with a confirm token has been finalized and
\* opened for editing: it carries an edit token and no confirm token
C37_ImportInEditWithoutConfirmToken ==
    \E tid \in Tids :
        /\ tourn[tid].exists
        /\ tourn[tid].imported_from_text
        /\ ~tourn[tid].pending
        /\ tourn[tid].edit_token # None
        /\ tourn[tid].confirm_token = None
        /\ last.op = "edit_tournament"
        /\ last.tid = tid

(* ------------------------------- C38 ----------------------------------- *)
\* C38: the competitive and the premium token count of the store are never
\* negative, whatever finalizations have taken place.
C38_TokenCountsNeverNegative ==
    /\ store.competitive_tokens >= 0
    /\ store.premium_tokens >= 0

\* two premium tournaments of the store have been finalized, the second
\* when the store had no premium token left
C38_FinalizedWithoutToken ==
    /\ last.op = "apply_top_cut"
    /\ last.status = "finalized"
    /\ store.premium_tokens = 0
    /\ \A tid \in 1..2 :
          /\ tourn[tid].exists
          /\ ~tourn[tid].pending
          /\ tourn[tid].premium
          /\ tourn[tid].store_id = STORE

====
